---- MODULE Spec2Model ----
(***************************************************************************)
(* Model of src/flow_validator.py: the FlowValidator class (the diagnostic *)
(* sink, the checkers, the reachability traversal and the driver           *)
(* validate_flow_file) and main's exit code.                               *)
(*                                                                         *)
(* A parsed JSON document is a tagged value (JNull, JStr, JNum, JArr,      *)
(* JObj); a JSON object is a TLA+ function from its keys to values, so     *)
(* "key in obj" is a test on DOMAIN.  The order of the keys of an object   *)
(* is not part of the model.  An operation that raises a Python exception  *)
(* sets "raised" in its result; the exception leaves validate_flow_file    *)
(* and main (neither catches it), which ends the process with exit code 1. *)
(***************************************************************************)
EXTENDS Integers, Sequences, FiniteSets, TLC

VARIABLES data, errors, warnings, info, pc, ret, exitCode, run, first, ran,
          stack, visited, reachable, expanded, order

vars == <<data, errors, warnings, info, pc, ret, exitCode, run, first, ran,
          stack, visited, reachable, expanded, order>>

(***************************************************************************)
(* Bounds of the model.                                                    *)
(***************************************************************************)
\* number of top-level steps of the generated resolvers
NSteps == 3
\* number of runs of validate_flow_file on one validator instance
MaxRuns == 2
\* number of record operations made on a sink
MaxEntries == 4

(***************************************************************************)
(* JSON values, as json.load returns them.                                 *)
(***************************************************************************)
JNull == [k |-> "null"]
JStr(s) == [k |-> "str", s |-> s]
JNum(n) == [k |-> "num", n |-> n]
JArr(a) == [k |-> "arr", a |-> a]
JObj(o) == [k |-> "obj", o |-> o]
\* a file that json.load cannot parse, and a path that does not exist
JUnparsable == [k |-> "unparsable"]
JNoFile == [k |-> "nofile"]
\* the empty object {}
EmptyObj == JObj(<<>>)

IsDict(v) == v.k = "obj"
IsList(v) == v.k = "arr"
IsStr(v) == v.k = "str"
IsNull(v) == v.k = "null"

(***************************************************************************)
(* Strings.  TLC cannot take a string apart, so the strings the checkers   *)
(* inspect character by character are spelled here.                        *)
(***************************************************************************)
Lower == {"a", "b", "c", "d", "e", "f", "g", "h", "i", "j", "k", "l", "m",
          "n", "o", "p", "q", "r", "s", "t", "u", "v", "w", "x", "y", "z"}
Upper == {"A", "B", "C", "D", "E", "F", "G", "H", "I", "J", "K", "L", "M",
          "N", "O", "P", "Q", "R", "S", "T", "U", "V", "W", "X", "Y", "Z"}
Digit == {"0", "1", "2", "3", "4", "5", "6", "7", "8", "9"}

Spell(s) ==
  CASE s = "" -> <<>>
    [] s = "a" -> <<"a">>
    [] s = "b" -> <<"b">>
    [] s = "c" -> <<"c">>
    [] s = "d" -> <<"d">>
    [] s = "e" -> <<"e">>
    [] s = "zz" -> <<"z", "z">>
    [] s = "syncOrders" -> <<"s", "y", "n", "c", "O", "r", "d", "e", "r", "s">>
    [] s = "SyncOrders" -> <<"S", "y", "n", "c", "O", "r", "d", "e", "r", "s">>
    [] s = "Sync Orders" -> <<"S", "y", "n", "c", " ", "O", "r", "d", "e", "r", "s">>
    [] s = "sync_orders" -> <<"s", "y", "n", "c", "_", "o", "r", "d", "e", "r", "s">>
    [] s = "sync-orders" -> <<"s", "y", "n", "c", "-", "o", "r", "d", "e", "r", "s">>
    [] OTHER -> <<"?">>

\* the step ids of the model, in the order sorted() gives them
IdUniverse == <<"a", "b", "c", "d", "e", "zz">>

\* every string a step of the model has as its id, in the order sorted() gives
\* them (by code point: " " < "-" < upper case < "_" < lower case)
SortedIds ==
  <<"Sync Orders", "SyncOrders", "a", "b", "c", "d", "e",
    "sync-orders", "syncOrders", "sync_orders", "zz">>

\* sorted(S) for a set S of step ids
Sorted(S) == SelectSeq(SortedIds, LAMBDA x : x \in S)

Range(f) == {f[i] : i \in DOMAIN f}

(***************************************************************************)
(* Python's operations on parsed values.                                   *)
(***************************************************************************)
\* bool(v)
Truthy(v) ==
  CASE v.k = "null" -> FALSE
    [] v.k = "str" -> v.s /= ""
    [] v.k = "num" -> v.n /= 0
    [] v.k = "arr" -> v.a /= <<>>
    [] v.k = "obj" -> DOMAIN v.o /= {}
    [] OTHER -> TRUE

\* "key in v" raises TypeError unless v is a dict, a list or a string
CanIn(v) == v.k \in {"obj", "arr", "str"}

IsSubSeq(p, t) ==
  \E i \in 0..(Len(t) - Len(p)) : \A j \in 1..Len(p) : t[i + j] = p[j]

\* key in v, for a v with CanIn(v)
In(key, v) ==
  CASE v.k = "obj" -> key \in DOMAIN v.o
    [] v.k = "arr" -> \E i \in 1..Len(v.a) : v.a[i] = JStr(key)
    [] v.k = "str" -> IsSubSeq(Spell(key), Spell(v.s))
    [] OTHER -> FALSE

\* v.get(key, default), for a dict v
Get(v, key, default) == IF key \in DOMAIN v.o THEN v.o[key] ELSE default

\* The keys of a dict, one after the other.  Python yields them in the order of
\* the document; the model keeps no such order and takes a fixed one.
RECURSIVE SetToSeq(_)
SetToSeq(S) ==
  IF S = {} THEN <<>>
  ELSE LET x == CHOOSE y \in S : TRUE IN <<x>> \o SetToSeq(S \ {x})

KeysOf(v) == SetToSeq(DOMAIN v.o)

\* "for x in v" raises TypeError unless v is a list, a dict or a string
CanIter(v) == v.k \in {"obj", "arr", "str"}

\* the items "for x in v" yields (the keys of a dict, the characters of a string)
Items(v) ==
  CASE v.k = "arr" -> v.a
    [] v.k = "obj" -> [i \in 1..Len(KeysOf(v)) |-> JStr(KeysOf(v)[i])]
    [] v.k = "str" -> [i \in 1..Len(Spell(v.s)) |-> JStr(Spell(v.s)[i])]
    [] OTHER -> <<>>

\* a value as an f-string prints it
Show(v) ==
  CASE v.k = "str" -> v.s
    [] v.k = "null" -> "None"
    [] OTHER -> "<value>"

\* re.match(r'^[a-z][a-zA-Z0-9]*$', s)
MatchesCamelCase(s) ==
  LET c == Spell(s)
  IN /\ Len(c) >= 1
     /\ c[1] \in Lower
     /\ \A i \in 2..Len(c) : c[i] \in Lower \cup Upper \cup Digit

HasChar(s, ch) == \E i \in 1..Len(Spell(s)) : Spell(s)[i] = ch
\* s[0].isupper()
StartsUpper(s) == Len(Spell(s)) >= 1 /\ Spell(s)[1] \in Upper

(***************************************************************************)
(* The tables FlowValidator.__init__ sets.                                 *)
(***************************************************************************)
VALID_STATUS_VALUES == {"DEPLOYED", "CONNECT", "PUBLISH"}
INVALID_STATUS_VALUES == {"DRAFT", "ACTIVE", "INACTIVE", "PENDING"}

\* The two sets of field names are sequences here: a list of missing fields is
\* built in the order Python iterates the set, which is fixed within a process;
\* the model takes the order of the source text.
REQUIRED_TOP_LEVEL_FIELDS ==
  <<"clientId", "id", "name", "actionType", "inputName", "inputModelId",
    "outputModelId", "headerModelId", "resolver", "metaData">>

ADDITIONAL_REQUIRED_FIELDS ==
  <<"newName", "description", "chatWelcomeMessage", "errorModelId", "version">>

REQUIRED_STEP_NULL_FIELDS ==
  <<"actionId", "inline", "function", "composite", "loop", "internalDatabase",
    "aiAction", "mcpClient", "logger", "downLoadFile", "endLoop", "trigger",
    "converter", "variables", "state", "conditional", "lambdaFunction",
    "outputSchema", "prevStep", "enableDebug", "description", "debugBreakAfter",
    "configuredStepSetting", "filter", "limit", "splitOut", "aggregate",
    "merge", "aiAgent", "settings">>

VALID_STEP_TYPES ==
  {"COMPOSITE", "INLINE", "CONDITIONAL", "LOOP", "VARIABLE", "INTERNAL_DB",
   "API", "LOGGER"}

VALID_CONDITIONAL_OPERATIONS ==
  {"DOES_NOT_CONTAIN", "LENGTH_EQ", "GREATER_THAN", "LESS_THAN", "NOT_EXISTS",
   "EQ_IGNORE_CASE", "EQ", "ENDS_WITH", "GREATER_THAN_OR_EQ",
   "LESS_THAN_OR_EQ", "STARTS_WITH", "DOES_NOT_START_WITH", "NOT_EQ", "NEQ",
   "MATCHES_REGEX", "EXISTS", "CONTAINS", "NONE", "DOES_NOT_MATCH_REGEX",
   "TYPE_OF", "DOES_NOT_END_WITH"}

INVALID_CONDITIONAL_OPERATIONS ==
  [GT |-> "GREATER_THAN", LT |-> "LESS_THAN", GTE |-> "GREATER_THAN_OR_EQ",
   LTE |-> "LESS_THAN_OR_EQ", EQUALS |-> "EQ", NOT_EQUALS |-> "NOT_EQ"]
  @@ ("!=" :> "NOT_EQ") @@ ("==" :> "EQ")

(***************************************************************************)
(* The diagnostic sink.  An entry stands for the formatted string: its     *)
(* severity prefix, its location, and the message (the kind of the message *)
(* and the values interpolated into it).                                   *)
(***************************************************************************)
Entry(sev, kind, args, loc) == [sev |-> sev, loc |-> loc, kind |-> kind, args |-> args]

\* add_error that records a finding only when the list does not hold it yet
add_error_once(list, kind, args, loc) ==
  IF Entry("ERROR", kind, args, loc) \in Range(list) THEN list
  ELSE Append(list, Entry("ERROR", kind, args, loc))

add_error(list, kind, args, loc) == Append(list, Entry("ERROR", kind, args, loc))
add_warning(list, kind, args, loc) == Append(list, Entry("WARNING", kind, args, loc))
add_info(list, kind, args, loc) == Append(list, Entry("INFO", kind, args, loc))

(***************************************************************************)
(* What a checker does to the sink: the entries it appends to each list,   *)
(* in order, and whether it raised.                                        *)
(***************************************************************************)
Nothing == [e |-> <<>>, w |-> <<>>, i |-> <<>>, raised |-> FALSE]
Raise == [e |-> <<>>, w |-> <<>>, i |-> <<>>, raised |-> TRUE]
Err(kind, args, loc) == [Nothing EXCEPT !.e = add_error(<<>>, kind, args, loc)]
Warn(kind, args, loc) == [Nothing EXCEPT !.w = add_warning(<<>>, kind, args, loc)]
Info(kind, args, loc) == [Nothing EXCEPT !.i = add_info(<<>>, kind, args, loc)]

\* a, then b unless a raised
Then(a, b) ==
  IF a.raised THEN a
  ELSE [e |-> a.e \o b.e, w |-> a.w \o b.w, i |-> a.i \o b.i, raised |-> b.raised]

When(cond, a) == IF cond THEN a ELSE Nothing

\* the effects of a sequence of operations, one after the other
RECURSIVE ThenAll(_)
ThenAll(s) ==
  IF Len(s) = 0 THEN Nothing
  ELSE IF Len(s) = 1 THEN s[1]
  ELSE LET half == Len(s) \div 2
       IN Then(ThenAll(SubSeq(s, 1, half)), ThenAll(SubSeq(s, half + 1, Len(s))))

\* str(i) for the indices that occur in locations
ToStr(i) ==
  CASE i = 0 -> "0" [] i = 1 -> "1" [] i = 2 -> "2" [] i = 3 -> "3"
    [] i = 4 -> "4" [] i = 5 -> "5" [] i = 6 -> "6" [] OTHER -> "n"

\* validate_json_structure without its test for an empty array
validate_json_structure_without_empty_test(d) ==
  IF ~IsList(d)
    THEN [out |-> Err("root_not_array", <<>>, <<>>), ok |-> FALSE]
  ELSE [out |-> When(Len(d.a) > 1, Warn("multiple_flows", <<>>, <<>>)), ok |-> TRUE]

(***************************************************************************)
(* validate_json_structure: ok is its return value.                        *)
(***************************************************************************)
validate_json_structure(d) ==
  IF ~IsList(d)
    THEN [out |-> Err("root_not_array", <<>>, <<>>), ok |-> FALSE]
  ELSE IF Len(d.a) = 0
    THEN [out |-> Err("flow_array_empty", <<>>, <<>>), ok |-> FALSE]
  ELSE [out |-> When(Len(d.a) > 1, Warn("multiple_flows", <<>>, <<>>)), ok |-> TRUE]

(***************************************************************************)
(* validate_top_level_fields                                               *)
(***************************************************************************)
validate_top_level_fields(flow) ==
  IF ~CanIn(flow) THEN Raise
  ELSE LET missing_fields == SelectSeq(REQUIRED_TOP_LEVEL_FIELDS, LAMBDA f : ~In(f, flow))
       IN When(Len(missing_fields) > 0,
               Then(Err("missing_top_level_fields", missing_fields, <<>>),
                    Info("copy_from_base_flow", <<>>, <<>>)))

(***************************************************************************)
(* validate_import_required_fields                                         *)
(***************************************************************************)
validate_import_required_fields(flow) ==
  IF ~CanIn(flow) THEN Raise
  ELSE ThenAll([n \in 1..Len(ADDITIONAL_REQUIRED_FIELDS) |->
         LET field == ADDITIONAL_REQUIRED_FIELDS[n]
         IN When(~In(field, flow),
                 Then(Warn("missing_import_field", <<field>>, <<>>),
                      Info("add_import_field", <<field>>, <<>>)))])

(***************************************************************************)
(* validate_naming_patterns and the step-name checks it calls.             *)
(***************************************************************************)
\* re.match(pattern, v) raises TypeError when v is not a string
CanMatch(v) == IsStr(v)

\* the nested steps of one body (composite or loop) of a step
RECURSIVE ValidateNestedBody(_, _, _)
\* _validate_nested_step_names(step, parent_path)
RECURSIVE validate_nested_step_names(_, _)

ValidateNestedBody(step, bodyKey, parent_path) ==
  LET body == step.o[bodyKey]
  IN IF ~CanIn(body) THEN Raise
     ELSE IF ~In("steps", body) THEN Nothing
     ELSE IF ~IsDict(body) THEN Raise
     ELSE IF ~CanIter(body.o["steps"]) THEN Raise
     ELSE LET nested == Items(body.o["steps"])
          IN ThenAll([n \in 1..Len(nested) |->
               IF ~IsDict(nested[n]) THEN Raise
               ELSE LET nested_id == Get(nested[n], "id", JStr(""))
                        location == parent_path \o <<bodyKey, "steps", ToStr(n - 1)>>
                    IN Then(IF ~Truthy(nested_id) THEN Nothing
                            ELSE IF ~CanMatch(nested_id) THEN Raise
                            ELSE When(~MatchesCamelCase(nested_id.s),
                                      Err("invalid_nested_step_name", <<nested_id.s>>, location)),
                            \* only the loop branch recurses into deeper nesting
                            IF bodyKey = "loop"
                              THEN validate_nested_step_names(nested[n],
                                     parent_path \o <<"loop", Show(nested_id)>>)
                              ELSE Nothing)])

validate_nested_step_names(step, parent_path) ==
  IF Get(step, "type", JNull) = JStr("COMPOSITE") /\ In("composite", step)
    THEN ValidateNestedBody(step, "composite", parent_path)
  ELSE IF Get(step, "type", JNull) = JStr("LOOP") /\ In("loop", step)
    THEN ValidateNestedBody(step, "loop", parent_path)
  ELSE Nothing

\* _validate_composite_step_name with the mismatch recorded as an Error and
\* the pattern not checked
validate_composite_step_name_as_error(step, location) ==
  LET step_id == Get(step, "id", JStr(""))
      function == step.o["function"]
      connector_name == Get(function, "name", JStr(""))
  IN IF ~(In("function", step) /\ Truthy(function)) THEN Nothing
     ELSE IF ~IsDict(function) THEN Raise
     ELSE When(Truthy(connector_name) /\ step_id /= connector_name,
               Err("composite_name_mismatch",
                   <<Show(step_id), Show(connector_name)>>, location))

\* _validate_composite_step_name(step, location)
validate_composite_step_name(step, location) ==
  LET step_id == Get(step, "id", JStr(""))
      function == step.o["function"]
      connector_name == Get(function, "name", JStr(""))
      connector ==
        IF ~(In("function", step) /\ Truthy(function)) THEN Nothing
        ELSE IF ~IsDict(function) THEN Raise
        ELSE When(Truthy(connector_name) /\ step_id /= connector_name,
                  ThenAll(<<Warn("composite_name_mismatch",
                                 <<Show(step_id), Show(connector_name)>>, location),
                            Info("composite_use_endpoint_names", <<>>, <<>>),
                            Info("consider_renaming", <<Show(connector_name)>>, <<>>)>>))
  IN Then(connector,
          IF ~CanMatch(step_id) THEN Raise
          ELSE When(~MatchesCamelCase(step_id.s),
                    Err("invalid_composite_step_name", <<step_id.s>>, location)))

\* the body of the loop of _validate_step_names, for the step at index i (from 0)
ValidateStepName(step, i) ==
  IF ~IsDict(step) THEN Raise
  ELSE LET step_id == Get(step, "id", JStr(""))
           step_type == Get(step, "type", JStr(""))
           location == <<"Step", ToStr(i + 1)>>
       IN IF ~Truthy(step_id) THEN Err("step_missing_id", <<>>, location)
          ELSE Then(
            IF step_type = JStr("COMPOSITE")
              THEN validate_composite_step_name(step, location)
            ELSE IF ~CanMatch(step_id) THEN Raise
            ELSE Then(
              When(~MatchesCamelCase(step_id.s),
                   Then(Err("invalid_step_name", <<step_id.s>>, location),
                        Info("good_step_names", <<>>, <<>>))),
              IF HasChar(step_id.s, " ")
                THEN Err("step_name_spaces", <<step_id.s>>, location)
              ELSE IF HasChar(step_id.s, "-")
                THEN Err("step_name_dashes", <<step_id.s>>, location)
              ELSE IF HasChar(step_id.s, "_")
                THEN Err("step_name_underscores", <<step_id.s>>, location)
              ELSE IF StartsUpper(step_id.s)
                THEN Err("step_name_uppercase", <<step_id.s>>, location)
              ELSE Nothing),
            validate_nested_step_names(step, <<Show(step_id)>>))

\* "resolver" in flow and "steps" in flow["resolver"], for a dict flow:
\* the guard of the step checkers, and whether evaluating it raises
StepsGuardRaises(flow) == In("resolver", flow) /\ ~CanIn(flow.o["resolver"])
HasSteps(flow) == In("resolver", flow) /\ In("steps", flow.o["resolver"])
\* flow["resolver"]["steps"] raises unless the resolver is a dict
StepsLookupRaises(flow) == ~IsDict(flow.o["resolver"])

\* _validate_step_names(flow)
validate_step_names(flow) ==
  IF StepsGuardRaises(flow) THEN Raise
  ELSE IF ~HasSteps(flow) THEN Nothing
  ELSE IF StepsLookupRaises(flow) THEN Raise
  ELSE LET steps == flow.o["resolver"].o["steps"]
       IN IF ~CanIter(steps) THEN Raise
          ELSE ThenAll([n \in 1..Len(Items(steps)) |-> ValidateStepName(Items(steps)[n], n - 1)])

\* the checks of one of the two flow identifiers against the pattern
ValidateFlowIdentifier(v, kind) ==
  IF ~Truthy(v) THEN Nothing
  ELSE IF ~CanMatch(v) THEN Raise
  ELSE When(~MatchesCamelCase(v.s),
            Then(Err(kind, <<v.s>>, <<>>), Info("good_flow_names", <<>>, <<>>)))

validate_naming_patterns(flow) ==
  IF ~IsDict(flow) THEN Raise
  ELSE LET name == Get(flow, "name", JStr(""))
           flow_id == Get(flow, "id", JStr(""))
       IN ThenAll(<<
            ValidateFlowIdentifier(name, "invalid_flow_name"),
            ValidateFlowIdentifier(flow_id, "invalid_flow_id"),
            When(Truthy(name) /\ IsStr(name),
                 ThenAll(<<
                   When(HasChar(name.s, " "), Err("flow_name_spaces", <<name.s>>, <<>>)),
                   When(HasChar(name.s, "-") \/ HasChar(name.s, "_"),
                        Err("flow_name_dashes_underscores", <<name.s>>, <<>>)),
                   When(StartsUpper(name.s), Err("flow_name_uppercase", <<name.s>>, <<>>))>>)),
            validate_step_names(flow)>>)

(***************************************************************************)
(* validate_status_field                                                   *)
(***************************************************************************)
\* "v in <set>" and "v in <dict>" raise TypeError for a list or a dict v
Hashable(v) == v.k \notin {"arr", "obj"}

\* ', '.join(self.VALID_STATUS_VALUES)
ValidStatusList == <<"DEPLOYED", "CONNECT", "PUBLISH">>

validate_status_field(flow) ==
  IF ~CanIn(flow) THEN Raise
  ELSE IF ~In("status", flow) THEN Warn("missing_status", <<>>, <<>>)
  ELSE IF ~IsDict(flow) THEN Raise
  ELSE LET status == flow.o["status"]
       IN IF ~Hashable(status) THEN Raise
          ELSE IF IsStr(status) /\ status.s \in VALID_STATUS_VALUES THEN Nothing
          ELSE IF IsStr(status) /\ status.s \in INVALID_STATUS_VALUES
            THEN ThenAll(<<Err("invalid_status_value", <<status.s>>, <<>>),
                           Err("valid_status_values_are", ValidStatusList, <<>>),
                           Err("never_use_draft", <<>>, <<>>)>>)
          ELSE Err("unknown_status_value", <<Show(status)>> \o ValidStatusList, <<>>)

(***************************************************************************)
(* validate_model_objects                                                  *)
(***************************************************************************)
model_checks ==
  <<<<"inputModel", "inputModelId">>, <<"outputModel", "outputModelId">>,
    <<"headerModel", "headerModelId">>>>

\* the check of one model without the comparison of the ids
ValidateModel_without_comparison(flow, model_field, id_field) ==
  IF ~In(model_field, flow)
    THEN Then(Err("missing_model_object", <<model_field>>, <<>>),
              Info("copy_model_from_base_flow", <<model_field>>, <<>>))
  ELSE IF IsNull(flow.o[model_field])
    THEN ThenAll(<<Err("model_is_null", <<model_field>>, <<>>),
                   Err("cannot_invoke_getId", <<>>, <<>>),
                   Info("copy_model_from_base_flow", <<model_field>>, <<>>)>>)
  ELSE IF ~In(id_field, flow)
    THEN Err("missing_model_id_field", <<id_field>>, <<>>)
  ELSE Nothing

ValidateModel(flow, model_field, id_field) ==
  IF ~In(model_field, flow)
    THEN Then(Err("missing_model_object", <<model_field>>, <<>>),
              Info("copy_model_from_base_flow", <<model_field>>, <<>>))
  ELSE IF IsNull(flow.o[model_field])
    THEN ThenAll(<<Err("model_is_null", <<model_field>>, <<>>),
                   Err("cannot_invoke_getId", <<>>, <<>>),
                   Info("copy_model_from_base_flow", <<model_field>>, <<>>)>>)
  ELSE IF ~In(id_field, flow)
    THEN Err("missing_model_id_field", <<id_field>>, <<>>)
  ELSE LET model_obj == flow.o[model_field]
       IN When(IsDict(model_obj) /\ In("id", model_obj)
                 /\ flow.o[id_field] /= model_obj.o["id"],
               Err("model_id_mismatch",
                   <<id_field, Show(flow.o[id_field]), model_field, Show(model_obj.o["id"])>>,
                   <<>>))

validate_model_objects(flow) ==
  IF ~CanIn(flow) THEN Raise
  ELSE IF ~IsDict(flow)
    \* a list or a string: flow[model_field] raises once a field is found in it
    THEN IF \E n \in 1..Len(model_checks) : In(model_checks[n][1], flow)
           THEN Raise
           ELSE ThenAll([n \in 1..Len(model_checks) |->
                  Then(Err("missing_model_object", <<model_checks[n][1]>>, <<>>),
                       Info("copy_model_from_base_flow", <<model_checks[n][1]>>, <<>>))])
  ELSE ThenAll([n \in 1..Len(model_checks) |->
         ValidateModel(flow, model_checks[n][1], model_checks[n][2])])

(***************************************************************************)
(* validate_steps and the per-type step checks.                            *)
(***************************************************************************)
\* re.findall(r'\[[0-9]+\]', code), for the code strings of the model
HardcodedIndices(code) ==
  CASE code = "return rows[0]" -> <<"[0]">>
    [] code = "flattenOrderDetails.output.flattenedRow[1]" -> <<"[1]">>
    [] code = "{{steps.a.output[0]}}" -> <<"[0]">>
    [] OTHER -> <<>>

\* re.search(r'flattenedRow\[1\]', code)
HasFlattenedRow1(code) == code = "flattenOrderDetails.output.flattenedRow[1]"

\* re.search(r'\.output\.[a-zA-Z]+\[[0-9]+\]', code)
HasOutputIndex(code) == code = "flattenOrderDetails.output.flattenedRow[1]"

validate_inline_code(code, location) ==
  IF ~IsStr(code) THEN Err("inline_code_not_string", <<>>, location)
  ELSE ThenAll(<<
         When(Len(HardcodedIndices(code.s)) > 0,
              Warn("hardcoded_array_indices", HardcodedIndices(code.s), location)),
         When(HasFlattenedRow1(code.s), Warn("index_1_out_of_bounds", <<>>, location)),
         When(HasOutputIndex(code.s), Warn("hardcoded_array_access", <<>>, location))>>)

validate_inline_step(step, location) ==
  IF ~In("inline", step) THEN Err("inline_missing_configuration", <<>>, location)
  ELSE LET inline == step.o["inline"]
       IN IF ~CanIn(inline) THEN Raise
          ELSE ThenAll(<<
                 When(~In("uiCode", inline), Err("inline_missing_uiCode", <<>>, location)),
                 When(~In("queryExecutor", inline),
                      Err("inline_missing_queryExecutor", <<>>, location)),
                 IF ~In("code", inline) THEN Err("inline_missing_code", <<>>, location)
                 ELSE IF ~IsDict(inline) THEN Raise
                 ELSE validate_inline_code(inline.o["code"], location)>>)

validate_api_step(step, location) ==
  LET function == Get(step, "function", JNull)
      required_function_fields == <<"id", "groupId", "name", "version", "connectorId">>
  IN IF ~Truthy(function) \/ ~IsDict(function)
       THEN Err("api_missing_function", <<>>, location)
     ELSE Then(
       ThenAll([n \in 1..Len(required_function_fields) |->
         When(~In(required_function_fields[n], function),
              Err("api_missing_function_field", <<required_function_fields[n]>>, location))]),
       IF ~In("configuration", function)
         THEN Warn("api_missing_configuration", <<>>, location)
       ELSE IF ~CanIn(function.o["configuration"]) THEN Raise
       ELSE When(~In("authType", function.o["configuration"]),
                 Warn("api_missing_authType", <<>>, location)))

RECURSIVE validate_single_step(_, _)
RECURSIVE validate_composite_step(_, _)

validate_composite_step(step, location) ==
  IF ~In("composite", step) THEN Err("composite_missing_configuration", <<>>, location)
  ELSE LET composite == step.o["composite"]
       IN IF ~CanIn(composite) THEN Raise
          ELSE IF ~In("steps", composite) THEN Err("composite_missing_steps", <<>>, location)
          ELSE IF ~IsDict(composite) THEN Raise
          ELSE IF ~CanIter(composite.o["steps"]) THEN Raise
          ELSE LET nested == Items(composite.o["steps"])
               IN ThenAll([n \in 1..Len(nested) |->
                    validate_single_step(nested[n],
                      location \o <<">", "Composite Step", ToStr(n - 1)>>)])

validate_single_step(step, location) ==
  IF ~IsDict(step) THEN Err("step_must_be_object", <<>>, location)
  ELSE IF ~In("type", step) THEN Err("missing_type_field", <<>>, location)
  ELSE LET step_type == step.o["type"]
       IN ThenAll(<<
            When(~In("id", step), Err("missing_id_field", <<>>, location)),
            IF ~Hashable(step_type) THEN Raise
            ELSE When(~(IsStr(step_type) /\ step_type.s \in VALID_STEP_TYPES),
                      Err("invalid_step_type", <<Show(step_type)>>, location)),
            IF step_type = JStr("INLINE") THEN validate_inline_step(step, location)
            ELSE IF step_type = JStr("COMPOSITE") THEN validate_composite_step(step, location)
            ELSE IF step_type = JStr("API") THEN validate_api_step(step, location)
            ELSE Nothing>>)

validate_steps(flow) ==
  IF ~CanIn(flow) THEN Raise
  ELSE IF ~IsDict(flow) THEN IF In("resolver", flow) THEN Raise
                              ELSE Warn("no_steps_found", <<>>, <<>>)
  ELSE IF StepsGuardRaises(flow) THEN Raise
  ELSE IF ~HasSteps(flow) THEN Warn("no_steps_found", <<>>, <<>>)
  ELSE IF StepsLookupRaises(flow) THEN Raise
  ELSE LET steps == flow.o["resolver"].o["steps"]
       IN IF ~IsList(steps) THEN Err("steps_must_be_array", <<>>, <<>>)
          ELSE ThenAll([n \in 1..Len(steps.a) |->
                 validate_single_step(steps.a[n], <<"Step", ToStr(n - 1)>>)])

(***************************************************************************)
(* validate_step_null_fields                                               *)
(***************************************************************************)
MissingNullFields(step) == SelectSeq(REQUIRED_STEP_NULL_FIELDS, LAMBDA f : ~In(f, step))

\* "body and isinstance(body, dict) and body.get('steps')", for body = step.get(key)
HasNestedSteps(step, key) ==
  LET body == Get(step, key, JNull)
  IN Truthy(body) /\ IsDict(body) /\ Truthy(Get(body, "steps", JNull))

\* _validate_nested_steps_null_fields(steps, parent_path)
RECURSIVE validate_nested_steps_null_fields(_, _)
validate_nested_steps_null_fields(steps, parent_path) ==
  IF ~CanIter(steps) THEN Raise
  ELSE ThenAll([n \in 1..Len(Items(steps)) |->
    LET step == Items(steps)[n]
    IN IF ~IsDict(step) THEN Raise
       ELSE LET step_id == Show(Get(step, "id", JStr("step_n")))
                step_type == Show(Get(step, "type", JStr("UNKNOWN")))
            IN ThenAll(<<
                 When(Len(MissingNullFields(step)) > 0,
                      Err("nested_step_missing_null_fields",
                          <<step_id, step_type>> \o MissingNullFields(step), parent_path)),
                 IF HasNestedSteps(step, "composite")
                   THEN validate_nested_steps_null_fields(step.o["composite"].o["steps"],
                          parent_path \o <<step_id, "composite">>)
                   ELSE Nothing,
                 IF HasNestedSteps(step, "loop")
                   THEN validate_nested_steps_null_fields(step.o["loop"].o["steps"],
                          parent_path \o <<step_id, "loop">>)
                   ELSE Nothing>>)])

validate_step_null_fields(flow) ==
  IF ~IsDict(flow) THEN Raise
  ELSE LET resolver == Get(flow, "resolver", EmptyObj)
       IN IF ~IsDict(resolver) THEN Raise
          ELSE LET steps == Get(resolver, "steps", JArr(<<>>))
               IN IF ~CanIter(steps) THEN Raise
                  ELSE ThenAll([n \in 1..Len(Items(steps)) |->
                    LET step == Items(steps)[n]
                    IN IF ~IsDict(step) THEN Raise
                       ELSE LET step_id == Show(Get(step, "id", JStr("step_n")))
                                step_type == Show(Get(step, "type", JStr("UNKNOWN")))
                            IN ThenAll(<<
                                 When(Len(MissingNullFields(step)) > 0,
                                      Then(Err("step_missing_null_fields",
                                               <<step_id, step_type>> \o MissingNullFields(step),
                                               <<>>),
                                           Info("declare_all_fields_as_null", <<>>, <<>>))),
                                 IF HasNestedSteps(step, "composite")
                                   THEN validate_nested_steps_null_fields(
                                          step.o["composite"].o["steps"], <<step_id, "composite">>)
                                   ELSE Nothing,
                                 IF HasNestedSteps(step, "loop")
                                   THEN validate_nested_steps_null_fields(
                                          step.o["loop"].o["steps"], <<step_id, "loop">>)
                                   ELSE Nothing>>)])

(***************************************************************************)
(* validate_conditional_operations                                         *)
(***************************************************************************)
\* ", ".join(sorted(self.VALID_CONDITIONAL_OPERATIONS)) is one fixed string
ValidateExpression(expression, i, j) ==
  IF ~CanIn(expression) THEN Raise
  ELSE IF ~In("operation", expression) THEN Nothing
  ELSE IF ~IsDict(expression) THEN Raise
  ELSE LET operation == expression.o["operation"]
       IN IF ~Hashable(operation) THEN Raise
          ELSE IF IsStr(operation) /\ operation.s \in DOMAIN INVALID_CONDITIONAL_OPERATIONS
            THEN ThenAll(<<
                   Err("invalid_conditional_operation",
                       <<operation.s, ToStr(i + 1), ToStr(j + 1)>>, <<>>),
                   Err("use_instead",
                       <<INVALID_CONDITIONAL_OPERATIONS[operation.s], operation.s>>, <<>>),
                   Info("valid_operations", <<>>, <<>>)>>)
          ELSE IF ~(IsStr(operation) /\ operation.s \in VALID_CONDITIONAL_OPERATIONS)
            THEN Then(Err("unknown_conditional_operation",
                          <<Show(operation), ToStr(i + 1), ToStr(j + 1)>>, <<>>),
                      Info("valid_operations", <<>>, <<>>))
          ELSE Nothing

ValidateConditionalStep(step, i) ==
  IF ~IsDict(step) THEN Raise
  ELSE IF ~(Get(step, "type", JNull) = JStr("CONDITIONAL") /\ In("conditional", step))
    THEN Nothing
  ELSE LET conditional == step.o["conditional"]
       IN IF ~CanIn(conditional) THEN Raise
          ELSE IF ~In("expressions", conditional) THEN Nothing
          ELSE IF ~IsDict(conditional) THEN Raise
          ELSE IF ~CanIter(conditional.o["expressions"]) THEN Raise
          ELSE LET expressions == Items(conditional.o["expressions"])
               IN ThenAll([m \in 1..Len(expressions) |->
                    ValidateExpression(expressions[m], i, m - 1)])

validate_conditional_operations(flow) ==
  IF ~CanIn(flow) THEN Raise
  ELSE IF ~IsDict(flow) THEN IF In("resolver", flow) THEN Raise ELSE Nothing
  ELSE IF StepsGuardRaises(flow) THEN Raise
  ELSE IF ~HasSteps(flow) THEN Nothing
  ELSE IF StepsLookupRaises(flow) THEN Raise
  ELSE LET steps == flow.o["resolver"].o["steps"]
       IN IF ~CanIter(steps) THEN Raise
          ELSE ThenAll([n \in 1..Len(Items(steps)) |->
                 ValidateConditionalStep(Items(steps)[n], n - 1)])

(***************************************************************************)
(* validate_data_references                                                *)
(***************************************************************************)
\* the string values of a document, in the order json.dumps writes them
RECURSIVE StringsOf(_)
StringsOf(v) ==
  CASE v.k = "str" -> <<v.s>>
    [] v.k = "arr" -> ThenAll([n \in 1..Len(v.a) |->
                        [Nothing EXCEPT !.e = StringsOf(v.a[n])]]).e
    [] v.k = "obj" -> LET keys == KeysOf(v)
                      IN ThenAll([n \in 1..Len(keys) |->
                           [Nothing EXCEPT !.e = StringsOf(v.o[keys[n]])]]).e
    [] OTHER -> <<>>

\* "flattenOrderDetails.output.flattenedRow[1]" in s
HasFlattenRef(s) == s = "flattenOrderDetails.output.flattenedRow[1]"

\* re.findall(r'{{[^}]+\[[0-9]+\][^}]*}}', s): no other string of the model holds
\* "{{", and json.dumps itself writes no two adjacent opening braces
DataRefMatches(s) == IF s = "{{steps.a.output[0]}}" THEN <<s>> ELSE <<>>

validate_data_references(flow) ==
  LET strs == StringsOf(flow)
      problematic_refs ==
        ThenAll([n \in 1..Len(strs) |-> [Nothing EXCEPT !.e = DataRefMatches(strs[n])]]).e
  IN Then(
       When(\E n \in 1..Len(strs) : HasFlattenRef(strs[n]),
            Then(Err("problematic_flattenedRow_reference", <<>>, <<>>),
                 Err("index_1_may_not_exist", <<>>, <<>>))),
       When(Len(problematic_refs) > 0,
            Then(Warn("hardcoded_indices_in_references", problematic_refs, <<>>),
                 Info("use_semantic_field_names", <<>>, <<>>))))

(***************************************************************************)
(* validate_query_executor_structure                                       *)
(***************************************************************************)
RECURSIVE validate_query_executor_structure(_, _)

\* the loop over the children of a value object that has a children key
QueryExecutorChildren(obj, location) ==
  LET children == Get(obj, "children", JArr(<<>>))
  IN IF ~CanIter(children) THEN Raise
     ELSE ThenAll([n \in 1..Len(Items(children)) |->
            LET child == Items(children)[n]
            IN IF ~CanIn(child) THEN Raise
               ELSE IF ~In("value", child) THEN Nothing
               ELSE IF ~IsDict(child) THEN Raise
               ELSE validate_query_executor_structure(child.o["value"],
                      location \o <<"children", ToStr(n - 1)>>)])

\* the loop over obj.items()
QueryExecutorNested(obj, location) ==
  LET keys == KeysOf(obj)
  IN ThenAll([n \in 1..Len(keys) |->
    LET key == keys[n]
        value == obj.o[key]
    IN IF IsDict(value)
         THEN validate_query_executor_structure(value, location \o <<key>>)
       ELSE IF IsList(value)
         THEN ThenAll([m \in 1..Len(value.a) |->
                IF IsDict(value.a[m])
                  THEN validate_query_executor_structure(value.a[m],
                         location \o <<key, ToStr(m - 1)>>)
                  ELSE Nothing])
       ELSE Nothing])

validate_query_executor_structure(obj, location) ==
  IF ~IsDict(obj) THEN Nothing
  ELSE Then(
    IF In("returnLiteral", obj) /\ In("symbolOrIndex", obj) /\ In("version", obj)
      THEN IF ~In("children", obj)
             THEN Then(Err("missing_children_array", location, <<>>),
                       Err("value_objects_need_children", <<>>, <<>>))
             ELSE QueryExecutorChildren(obj, location)
      ELSE Nothing,
    QueryExecutorNested(obj, location))

(***************************************************************************)
(* validate_step_connectivity and _trace_reachable_steps.                  *)
(*                                                                         *)
(* A step lookup (step_dict) is a function from ids to steps.  The         *)
(* recursion of _trace_reachable_steps is a stack of pending calls: a call *)
(* that expands a step puts the calls it makes, in order, in front of the  *)
(* calls that were pending.                                                *)
(***************************************************************************)
\* Building a lookup from a list of steps raises when an item admits no "in",
\* or holds "id" without being a dict, or has an unhashable id.
StepDictRaises(steps) ==
  \/ ~CanIter(steps)
  \/ \E n \in 1..Len(Items(steps)) :
       LET step == Items(steps)[n]
       IN \/ ~CanIn(step)
          \/ In("id", step) /\ (~IsDict(step) \/ ~Hashable(step.o["id"]))

\* the lookup: each id maps to the last step that declares it
StepDict(steps) ==
  LET items == Items(steps)
      withId == {n \in 1..Len(items) : In("id", items[n])}
      ids == {items[n].o["id"] : n \in withId}
  IN [id \in ids |->
        items[CHOOSE n \in withId :
                /\ items[n].o["id"] = id
                /\ \A m \in withId : items[m].o["id"] = id => m <= n]]

\* a pending call _trace_reachable_steps(step_id, step_dict, ...); "raises"
\* marks the place where the caller raises instead of making a call
Call(step_id, step_dict) == [step_id |-> step_id, step_dict |-> step_dict, raises |-> FALSE]
RaiseHere == [step_id |-> JNull, step_dict |-> <<>>, raises |-> TRUE]

\* "a or b" for the two places an exit edge is read from
Or(a, b) == IF Truthy(a) THEN a ELSE b

\* the calls of a step with a body that follows the next of the body and the
\* next of the step, both
BodyCalls_with_both_exits(step, bodyKey, first_step, step_dict) ==
  LET body == Get(step, bodyKey, EmptyObj)
  IN IF ~IsDict(body) THEN <<RaiseHere>>
     ELSE LET internal_steps == Get(body, "steps", JArr(<<>>))
              internal_start == Get(body, "start", JNull)
          IN IF StepDictRaises(internal_steps) THEN <<RaiseHere>>
             ELSE (IF Truthy(internal_start)
                     THEN <<Call(internal_start, StepDict(internal_steps))>>
                   ELSE IF first_step /\ IsList(internal_steps) /\ Truthy(internal_steps)
                           /\ In("id", internal_steps.a[1])
                     THEN <<Call(internal_steps.a[1].o["id"], StepDict(internal_steps))>>
                   ELSE <<>>)
                  \o (IF Truthy(Get(body, "next", JNull))
                        THEN <<Call(Get(body, "next", JNull), step_dict)>> ELSE <<>>)
                  \o (IF Truthy(Get(step, "next", JNull))
                        THEN <<Call(Get(step, "next", JNull), step_dict)>> ELSE <<>>)

\* the calls a COMPOSITE step makes (first_step: whether a body without start
\* is entered at its first declared step)
BodyCalls(step, bodyKey, first_step, step_dict) ==
  LET body == Get(step, bodyKey, EmptyObj)
  IN IF ~IsDict(body) THEN <<RaiseHere>>
     ELSE LET internal_steps == Get(body, "steps", JArr(<<>>))
              internal_start == Get(body, "start", JNull)
              next_step == Or(Get(body, "next", JNull), Get(step, "next", JNull))
          IN IF StepDictRaises(internal_steps) THEN <<RaiseHere>>
             ELSE (IF Truthy(internal_start)
                     THEN <<Call(internal_start, StepDict(internal_steps))>>
                   ELSE IF first_step /\ Truthy(internal_steps)
                     \* internal_steps[0]: a KeyError on a dict, a character of a string
                     THEN IF IsDict(internal_steps) THEN <<RaiseHere>>
                          ELSE IF IsStr(internal_steps) THEN <<>>
                          ELSE IF In("id", internal_steps.a[1])
                            THEN <<Call(internal_steps.a[1].o["id"], StepDict(internal_steps))>>
                          ELSE <<>>
                   ELSE <<>>)
                  \o (IF Truthy(next_step) THEN <<Call(next_step, step_dict)>> ELSE <<>>)

\* the calls a CONDITIONAL step makes
RECURSIVE ExpressionCalls(_, _)
ExpressionCalls(expressions, step_dict) ==
  IF Len(expressions) = 0 THEN <<>>
  ELSE IF ~IsDict(Head(expressions)) THEN <<RaiseHere>>
  ELSE (IF Truthy(Get(Head(expressions), "next", JNull))
          THEN <<Call(Get(Head(expressions), "next", JNull), step_dict)>>
          ELSE <<>>)
       \o ExpressionCalls(Tail(expressions), step_dict)

ConditionalCalls(step, step_dict) ==
  LET conditional == Get(step, "conditional", EmptyObj)
  IN IF ~IsDict(conditional) THEN <<RaiseHere>>
     ELSE LET expressions == Get(conditional, "expressions", JArr(<<>>))
              default_next == Or(Get(conditional, "next", JNull), Get(step, "next", JNull))
              branches == ExpressionCalls(Items(expressions), step_dict)
          IN IF ~CanIter(expressions) THEN <<RaiseHere>>
             ELSE IF Len(branches) > 0 /\ branches[Len(branches)].raises THEN branches
             ELSE branches
                  \o (IF Truthy(default_next) THEN <<Call(default_next, step_dict)>> ELSE <<>>)

\* the calls the expansion of a step makes, by its type
Successors(step, step_dict) ==
  LET step_type == Get(step, "type", JStr(""))
  IN IF step_type = JStr("COMPOSITE") THEN BodyCalls(step, "composite", TRUE, step_dict)
     ELSE IF step_type = JStr("LOOP") THEN BodyCalls(step, "loop", FALSE, step_dict)
     ELSE IF step_type = JStr("CONDITIONAL") THEN ConditionalCalls(step, step_dict)
     ELSE IF Truthy(Get(step, "next", JNull))
       THEN <<Call(Get(step, "next", JNull), step_dict)>>
     ELSE <<>>

\* the guard of _trace_reachable_steps without its test of the visited set
TraceReturns_without_visited(step_id, step_dict, seen) == step_id \notin DOMAIN step_dict

\* the guard at the head of _trace_reachable_steps: the call returns at once
TraceReturns(step_id, step_dict, seen) == step_id \in seen \/ step_id \notin DOMAIN step_dict

(***************************************************************************)
(* _validate_step_next_references                                          *)
(***************************************************************************)
\* "ref and ref not in step_dict", and the error it leads to
DanglingRef(ref, step_dict, kind, args) ==
  IF ~Truthy(ref) THEN Nothing
  ELSE IF ~Hashable(ref) THEN Raise
  ELSE When(ref \notin DOMAIN step_dict, Err(kind, args \o <<Show(ref)>>, <<>>))

validate_step_next_references(step, step_dict, step_id) ==
  LET step_type == Get(step, "type", JStr(""))
      body(key) == Get(step, key, EmptyObj)
  IN Then(
       DanglingRef(Get(step, "next", JNull), step_dict, "dangling_next", <<step_id>>),
       IF step_type = JStr("COMPOSITE")
         THEN IF ~IsDict(body("composite")) THEN Raise
              ELSE DanglingRef(Get(body("composite"), "next", JNull), step_dict,
                               "dangling_composite_next", <<step_id>>)
       ELSE IF step_type = JStr("LOOP")
         THEN IF ~IsDict(body("loop")) THEN Raise
              ELSE DanglingRef(Get(body("loop"), "next", JNull), step_dict,
                               "dangling_loop_next", <<step_id>>)
       ELSE IF step_type = JStr("CONDITIONAL")
         THEN IF ~IsDict(body("conditional")) THEN Raise
              ELSE LET expressions == Get(body("conditional"), "expressions", JArr(<<>>))
                   IN IF ~CanIter(expressions) THEN Raise
                      ELSE Then(
                        ThenAll([n \in 1..Len(Items(expressions)) |->
                          IF ~IsDict(Items(expressions)[n]) THEN Raise
                          ELSE DanglingRef(Get(Items(expressions)[n], "next", JNull), step_dict,
                                 "dangling_expression_next", <<step_id, ToStr(n - 1)>>)]),
                        DanglingRef(Get(body("conditional"), "next", JNull), step_dict,
                                    "dangling_default_next", <<step_id>>))
       ELSE Nothing)

(***************************************************************************)
(* validate_step_connectivity, in three parts: up to the first call of     *)
(* _trace_reachable_steps; the traversal; what follows the traversal.      *)
(***************************************************************************)
\* validate_step_connectivity without its test for a missing start
StartMissing_never(start_step) == FALSE

\* "not start_step": the resolver has no usable start
StartMissing(start_step) == ~Truthy(start_step)

\* begin: "skip" (no steps to check), "raise", "no_start", or "trace"
ConnectivityBegin(flow) ==
  IF ~CanIn(flow) THEN "raise"
  ELSE IF ~IsDict(flow) THEN IF In("resolver", flow) THEN "raise" ELSE "skip"
  ELSE IF StepsGuardRaises(flow) THEN "raise"
  ELSE IF ~HasSteps(flow) THEN "skip"
  ELSE IF StepsLookupRaises(flow) THEN "raise"
  ELSE IF StartMissing(Get(flow.o["resolver"], "start", JNull)) THEN "no_start"
  ELSE IF StepDictRaises(flow.o["resolver"].o["steps"]) THEN "raise"
  ELSE IF ~Hashable(Get(flow.o["resolver"], "start", JNull)) THEN "raise"
  ELSE "trace"

\* the declared ids the traversal did not reach: all_step_ids - reachable_steps
\* the unreachable steps, none when the traversal reached nothing
Unreachable_but_start(step_dict, reachable_steps) ==
  IF reachable_steps = {} THEN {} ELSE DOMAIN step_dict \ reachable_steps

Unreachable(step_dict, reachable_steps) == DOMAIN step_dict \ reachable_steps

\* what follows the traversal: the orphan report, the start check, the references
ConnectivityEnd(flow, reachable_steps) ==
  LET steps == flow.o["resolver"].o["steps"]
      start_step == Get(flow.o["resolver"], "start", JNull)
      step_dict == StepDict(steps)
      unreachable_steps == Unreachable(step_dict, reachable_steps)
  IN ThenAll(<<
       IF unreachable_steps = {} THEN Nothing
       \* sorted() and join() take strings only
       ELSE IF \E id \in unreachable_steps : ~IsStr(id) THEN Raise
       ELSE Then(Err("orphaned_steps", Sorted({id.s : id \in unreachable_steps}), <<>>),
                 Err("all_steps_must_be_reachable", <<>>, <<>>)),
       When(start_step \notin DOMAIN step_dict,
            Err("start_step_not_found", <<Show(start_step)>>, <<>>)),
       ThenAll([n \in 1..Len(Items(steps)) |->
         LET step == Items(steps)[n]
         IN IF ~IsDict(step) THEN Raise
            ELSE validate_step_next_references(step, step_dict,
                   Show(Get(step, "id", JStr("unknown"))))])>>)

(***************************************************************************)
(* The documents of the model.                                             *)
(***************************************************************************)
\* the id of the top-level step at position n
IdOf(n) == IdUniverse[n]
TopIds == {IdOf(n) : n \in 1..NSteps}
\* an id no step declares
Ghost == "zz"
\* an id only nested steps declare
Inner == "e"
Absent == "-"

\* a step that declares every step-type field, as null unless given
BaseNull == [f \in Range(REQUIRED_STEP_NULL_FIELDS) |-> JNull]
Step(fields) == JObj(fields @@ BaseNull)

\* fields with the key left out when the value is Absent
Opt(key, s) == IF s = Absent THEN <<>> ELSE key :> JStr(s)

InlineBody == JObj([uiCode |-> JStr(""), queryExecutor |-> JNull, code |-> JStr("return input")])

InlineStep(id, next) ==
  Step([id |-> JStr(id), type |-> JStr("INLINE"), inline |-> InlineBody] @@ Opt("next", next))

VariableStep(id, next) ==
  Step([id |-> JStr(id), type |-> JStr("VARIABLE")] @@ Opt("next", next))

\* a COMPOSITE or LOOP step whose body holds one nested step
BodyStep(id, type, bodyKey, nestedId, start, bodyNext, next) ==
  Step([id |-> JStr(id), type |-> JStr(type)]
       @@ (bodyKey :> JObj(("steps" :> JArr(<<VariableStep(nestedId, Absent)>>))
                           @@ Opt("start", start) @@ Opt("next", bodyNext)))
       @@ Opt("next", next))

\* a CONDITIONAL step with one expression
ConditionalStep(id, exprNext, condNext, next) ==
  Step([id |-> JStr(id), type |-> JStr("CONDITIONAL"),
        conditional |-> JObj(("expressions" :>
                                JArr(<<JObj([operation |-> JStr("EQ")] @@ Opt("next", exprNext))>>))
                             @@ Opt("next", condNext))]
       @@ Opt("next", next))

Model(id) == JObj([id |-> JStr(id)])

\* a flow with every field the checkers ask for, but the resolver
BaseFlow ==
  [clientId |-> JStr("client"), id |-> JStr("syncOrders"), name |-> JStr("syncOrders"),
   actionType |-> JStr("action"), inputName |-> JStr("input"),
   inputModelId |-> JStr("in"), outputModelId |-> JStr("json"), headerModelId |-> JStr("hd"),
   metaData |-> JNull, newName |-> JNull, description |-> JNull,
   chatWelcomeMessage |-> JNull, errorModelId |-> JStr(""), version |-> JStr("1.0.1"),
   status |-> JStr("DEPLOYED"),
   inputModel |-> Model("in"), outputModel |-> Model("json"), headerModel |-> Model("hd")]

FlowWith(resolver) == JObj(("resolver" :> resolver) @@ BaseFlow)

Resolver(start, steps) == JObj(("steps" :> JArr(steps)) @@ Opt("start", start))

Doc(flow) == JArr(<<flow>>)

\* the flow without one of its keys
Without(flow, key) == JObj([f \in DOMAIN flow.o \ {key} |-> flow.o[f]])
\* the flow with one key set
With(flow, key, value) == JObj((key :> value) @@ flow.o)

NextChoices == {Absent, Ghost} \cup TopIds

\* Resolvers of NSteps INLINE steps: every choice of start and of each next.
PlainDocs ==
  {Doc(FlowWith(Resolver(start, [n \in 1..NSteps |-> InlineStep(IdOf(n), nexts[n])]))) :
     start \in NextChoices, nexts \in [1..NSteps -> NextChoices]}

\* Resolvers that start at a COMPOSITE or LOOP step with one nested step,
\* followed by a plain or CONDITIONAL step, followed by plain steps.
SecondSteps ==
  {VariableStep(IdOf(2), next) : next \in {Absent, IdOf(3)}}
  \cup {ConditionalStep(IdOf(2), exprNext, condNext, next) :
          exprNext \in {Absent, IdOf(3), Ghost}, condNext \in {Absent, IdOf(3)},
          next \in {Absent, IdOf(3)}}

NestedDocs ==
  {Doc(FlowWith(Resolver(IdOf(1),
     [n \in 1..NSteps |->
        IF n = 1 THEN BodyStep(IdOf(1), kind[1], kind[2], nestedId,
                               IF hasStart THEN nestedId ELSE Absent, bodyNext, next)
        ELSE IF n = 2 THEN second
        ELSE VariableStep(IdOf(n), IF n \in back THEN IdOf(1) ELSE Absent)]))) :
     kind \in {<<"COMPOSITE", "composite">>, <<"LOOP", "loop">>},
     nestedId \in TopIds \cup {Inner}, hasStart \in BOOLEAN, bodyNext \in {Absent, IdOf(2)},
     next \in {Absent, IdOf(2), IdOf(3)}, second \in SecondSteps,
     back \in SUBSET (3..NSteps)}

\* a valid chain of steps, for the documents that vary something else
ChainSteps == [n \in 1..NSteps |-> InlineStep(IdOf(n), IF n < NSteps THEN IdOf(n + 1) ELSE Absent)]
ChainFlow == FlowWith(Resolver(IdOf(1), ChainSteps))

\* Flows that vary the fields outside the resolver.
StatusChoices == {Absent, "DEPLOYED", "DRAFT", "LIVE"}
NameChoices == {"syncOrders", "Sync Orders", "sync_orders"}
ModelChoices == {"ok", "null", "absent", "mismatch"}

VariantFlow(status, name, model, hasNewName) ==
  LET f1 == IF status = Absent THEN Without(ChainFlow, "status")
            ELSE With(ChainFlow, "status", JStr(status))
      f2 == With(f1, "name", JStr(name))
      f3 == CASE model = "ok" -> f2
              [] model = "null" -> With(f2, "inputModel", JNull)
              [] model = "absent" -> Without(f2, "inputModel")
              [] model = "mismatch" -> With(f2, "inputModel", Model("json"))
  IN IF hasNewName THEN f3 ELSE Without(f3, "newName")

VariantDocs ==
  {IF two THEN JArr(<<VariantFlow(status, name, model, hasNewName), JNull>>)
          ELSE Doc(VariantFlow(status, name, model, hasNewName)) :
     status \in StatusChoices, name \in NameChoices, model \in ModelChoices,
     hasNewName \in BOOLEAN, two \in BOOLEAN}

\* Documents with missing or malformed parts.
ResolverWithSteps(start, steps) == FlowWith(JObj(("steps" :> steps) @@ Opt("start", start)))

MalformedDocs ==
  {JUnparsable, JNoFile,
   \* the root is not an array, or is an empty array
   ChainFlow, JNull, JStr("a"), JArr(<<>>),
   \* the flow is not an object
   Doc(JNull), Doc(JNum(5)), Doc(JArr(<<>>)), Doc(JStr("a")),
   \* the resolver is null, absent, empty, or declares no steps
   Doc(FlowWith(JNull)), Doc(Without(ChainFlow, "resolver")), Doc(FlowWith(EmptyObj)),
   Doc(FlowWith(JObj([start |-> JStr("a")]))),
   \* the start is null, or empty
   Doc(With(ChainFlow, "resolver", JObj([start |-> JNull, steps |-> JArr(ChainSteps)]))),
   Doc(With(ChainFlow, "resolver", JObj([start |-> JStr(""), steps |-> JArr(ChainSteps)]))),
   \* the steps are null, an object, an empty list
   Doc(ResolverWithSteps("a", JNull)), Doc(ResolverWithSteps("a", EmptyObj)),
   Doc(ResolverWithSteps("a", JArr(<<>>))), Doc(ResolverWithSteps(Absent, JArr(<<>>))),
   \* a step is not an object
   Doc(ResolverWithSteps("a", JArr(<<InlineStep("a", Absent), JStr("b")>>))),
   Doc(ResolverWithSteps("a", JArr(<<JNull>>))),
   Doc(ResolverWithSteps("a", JArr(<<JNum(5), InlineStep("a", Absent)>>))),
   \* a step without id, without type, without its null fields
   Doc(ResolverWithSteps("a", JArr(<<InlineStep("a", Absent),
                                      Without(InlineStep("b", Absent), "id")>>))),
   Doc(ResolverWithSteps("a", JArr(<<Without(InlineStep("a", Absent), "type")>>))),
   Doc(ResolverWithSteps("a", JArr(<<JObj([id |-> JStr("a"), type |-> JStr("VARIABLE")])>>))),
   \* a single step of a type without a body; a step whose body is declared null
   Doc(ResolverWithSteps("a", JArr(<<VariableStep("a", Absent)>>))),
   Doc(ResolverWithSteps("a", JArr(<<Step([id |-> JStr("a"), type |-> JStr("INLINE")])>>))),
   Doc(ResolverWithSteps("a", JArr(<<Step([id |-> JStr("a"), type |-> JStr("COMPOSITE")])>>))),
   Doc(ResolverWithSteps("a", JArr(<<Step([id |-> JStr("a"), type |-> JStr("LOOP")])>>))),
   Doc(ResolverWithSteps("a", JArr(<<Step([id |-> JStr("a"), type |-> JStr("CONDITIONAL")])>>))),
   \* a conditional whose expression is not an object
   Doc(ResolverWithSteps("a", JArr(<<
     Step([id |-> JStr("a"), type |-> JStr("CONDITIONAL"),
           conditional |-> JObj([expressions |-> JArr(<<JStr("EQ")>>)])])>>))),
   \* a composite whose nested step is not an object
   Doc(ResolverWithSteps("a", JArr(<<
     Step([id |-> JStr("a"), type |-> JStr("COMPOSITE"),
           composite |-> JObj([steps |-> JArr(<<JNull>>)])])>>)))}

\* Documents for the checks of one field or one step.
StepsDoc(start, steps) == Doc(FlowWith(Resolver(start, steps)))

\* a CONDITIONAL step with one expression of the given operation
OperationStep(id, operation) ==
  Step([id |-> JStr(id), type |-> JStr("CONDITIONAL"),
        conditional |-> JObj([expressions |-> JArr(<<JObj([operation |-> JStr(operation)])>>)])])

\* a COMPOSITE or LOOP step with the given nested steps and no start
Nest(id, kind, nested) ==
  Step([id |-> JStr(id), type |-> JStr(kind[1])] @@ (kind[2] :> JObj([steps |-> JArr(nested)])))

Composite == <<"COMPOSITE", "composite">>
Loop == <<"LOOP", "loop">>

\* a COMPOSITE step that calls a connector endpoint
ApiStep(id, function) ==
  Step([id |-> JStr(id), type |-> JStr("COMPOSITE"), function |-> function,
        composite |-> JObj([steps |-> JArr(<<>>)])])

\* an object with the three marker keys of a queryExecutor value, and more keys
ValueNode(more) ==
  JObj([returnLiteral |-> JStr(""), symbolOrIndex |-> JStr("x"), version |-> JNum(1)] @@ more)
Childless == ValueNode(<<>>)
WithChildren(children) == ValueNode("children" :> children)

\* an INLINE step with the given queryExecutor
QueryStep(queryExecutor) ==
  Step([id |-> JStr("a"), type |-> JStr("INLINE"),
        inline |-> JObj([uiCode |-> JStr(""), queryExecutor |-> queryExecutor,
                         code |-> JStr("return input")])])

BadIds == {"Sync Orders", "SyncOrders", "sync_orders", "sync-orders"}

OperationDocs ==
  {StepsDoc("a", <<OperationStep("a", operation)>>) : operation \in {"GT", "==", "FOO"}}
  \cup {StepsDoc("a", <<Nest("a", kind, <<OperationStep("b", operation)>>)>>) :
          kind \in {Composite, Loop}, operation \in {"EQ", "GT", "FOO"}}

NamingDocs ==
  {StepsDoc(id, <<VariableStep(id, Absent)>>) : id \in BadIds}
  \cup {StepsDoc(id, <<Nest(id, kind, <<VariableStep("b", Absent)>>)>>) :
          id \in BadIds, kind \in {Composite, Loop}}
  \cup {StepsDoc("a", <<Nest("a", kind, <<VariableStep(id, Absent)>>)>>) :
          id \in {"sync_orders", "syncOrders"}, kind \in {Composite, Loop}}
  \cup {StepsDoc("a", <<Nest("a", outer, <<Nest("b", inner, <<VariableStep(id, Absent)>>)>>)>>) :
          id \in {"sync_orders", "syncOrders"},
          outer \in {Composite, Loop}, inner \in {Composite, Loop}}
  \cup {StepsDoc("a", <<Nest("a", Loop, <<Nest("b", Composite,
                          <<Nest("c", Composite, <<VariableStep("sync_orders", Absent)>>)>>)>>)>>)}

ApiDocs ==
  {StepsDoc(id, <<ApiStep(id, JObj([name |-> JStr(name)]))>>) :
     id \in {"a", "syncOrders", "sync_orders"}, name \in {"syncOrders", "sync_orders", ""}}
  \cup {StepsDoc("a", <<ApiStep("a", EmptyObj)>>), StepsDoc("a", <<ApiStep("a", JStr("syncOrders"))>>)}

ModelDocs ==
  {Doc(With(ChainFlow, role, model)) :
     role \in {"inputModel", "outputModel", "headerModel"},
     model \in {JNull, Model("zz"), EmptyObj, JStr("in")}}
  \cup {Doc(Without(ChainFlow, role)) :
          role \in {"outputModel", "headerModel", "inputModelId", "outputModelId", "headerModelId"}}
  \cup {Doc(Without(Without(ChainFlow, "inputModel"), "inputModelId")),
        Doc(With(With(Without(ChainFlow, "inputModel"), "outputModel", JNull),
                 "headerModel", Model("zz")))}

QueryDocs ==
  {StepsDoc("a", <<QueryStep(queryExecutor)>>) :
     queryExecutor \in
       {Childless, WithChildren(JArr(<<>>)), WithChildren(JNull),
        WithChildren(JArr(<<JObj([value |-> Childless])>>)),
        WithChildren(JArr(<<JObj([value |-> WithChildren(JArr(<<>>))])>>)),
        WithChildren(JArr(<<JObj([other |-> Childless])>>)),
        ValueNode("inner" :> Childless),
        JArr(<<Childless, Childless>>),
        JArr(<<JArr(<<Childless>>)>>),
        JObj([list |-> JArr(<<JArr(<<Childless>>), WithChildren(JArr(<<>>))>>)])}}

\* a COMPOSITE or LOOP step with two nested steps, entered at the second or
\* without a start, with or without an exit of its own
EntryDocs ==
  {StepsDoc("a", <<Step([id |-> JStr("a"), type |-> JStr(kind[1])]
                        @@ (kind[2] :> JObj(("steps" :> JArr(<<VariableStep("d", Absent),
                                                               VariableStep("e", Absent)>>))
                                            @@ Opt("start", start) @@ Opt("next", bodyNext)))
                        @@ Opt("next", "c")),
                   VariableStep("b", Absent), VariableStep("c", Absent)>>) :
     kind \in {Composite, Loop}, start \in {Absent, "e"}, bodyNext \in {Absent, "b"}}

FeatureDocs ==
  OperationDocs \cup NamingDocs \cup ApiDocs \cup ModelDocs \cup QueryDocs \cup EntryDocs

Docs == PlainDocs \cup NestedDocs \cup VariantDocs \cup MalformedDocs \cup FeatureDocs

\* the documents validated more than once: those whose run fills every list of
\* the sink, makes every kind of traversal or raises
RerunDocs == NestedDocs \cup VariantDocs \cup MalformedDocs \cup FeatureDocs

\* the documents validated with the checkers in another order
OrderDocs == VariantDocs \cup MalformedDocs \cup FeatureDocs

(***************************************************************************)
(* The state: the sink of the validator instance, the position in          *)
(* validate_flow_file and main, and the locals of the traversal.           *)
(***************************************************************************)
\* the checkers in the order validate_flow_file calls them
DriverOrder ==
  <<"top_level_fields", "import_required_fields", "naming_patterns", "status_field",
    "model_objects", "steps", "step_null_fields", "conditional_operations",
    "step_connectivity", "data_references", "query_executor_structure">>

\* other orders of the same calls: the reverse, the rotations, and the
\* exchanges of two neighbours
Reversed(s) == [n \in 1..Len(s) |-> s[Len(s) + 1 - n]]
Rotated(s, k) == SubSeq(s, k + 1, Len(s)) \o SubSeq(s, 1, k)
Swapped(s, k) ==
  [n \in 1..Len(s) |-> IF n = k THEN s[k + 1] ELSE IF n = k + 1 THEN s[k] ELSE s[n]]

Orders ==
  {Reversed(DriverOrder)}
  \cup {Rotated(DriverOrder, k) : k \in 1..(Len(DriverOrder) - 1)}
  \cup {Swapped(DriverOrder, k) : k \in 1..(Len(DriverOrder) - 1)}

NoOutcome == [errors |-> <<>>, warnings |-> <<>>, info |-> <<>>, ret |-> "none"]

InitOn(documents) ==
  /\ data \in documents
  /\ errors = <<>>
  /\ warnings = <<>>
  /\ info = <<>>
  /\ pc = "start"
  /\ ret = "none"
  /\ exitCode = -1
  /\ run = 1
  /\ first = NoOutcome
  /\ ran = <<>>
  /\ stack = <<>>
  /\ visited = {}
  /\ reachable = {}
  /\ expanded = <<>>
  /\ order = DriverOrder

Init == InitOn(Docs)

InitRerun == InitOn(RerunDocs)

InitAnyOrder == InitOn(OrderDocs)

\* a validator on which only the record operations are called
InitSink ==
  /\ data = JNoFile
  /\ errors = <<>>
  /\ warnings = <<>>
  /\ info = <<>>
  /\ pc = "sink"
  /\ ret = "none"
  /\ exitCode = -1
  /\ run = 1
  /\ first = NoOutcome
  /\ ran = <<>>
  /\ stack = <<>>
  /\ visited = {}
  /\ reachable = {}
  /\ expanded = <<>>
  /\ order = DriverOrder

\* flow = data[0]
flow == data.a[1]
\* data[0] raises on an empty list, and on a dict (KeyError)
FlowLookupRaises(d) == IF IsList(d) THEN Len(d.a) = 0 ELSE ~IsStr(d)

\* validate_flow_file without the reset of its lists
ResetSink_keeps(list) == list

\* self.errors = [] (and the same for the other two lists)
ResetSink(list) == <<>>

traversalVars == <<stack, visited, reachable, expanded>>
mainVars == <<data, exitCode, run, first, order>>
driverVars == <<exitCode, run, first, order>>

\* a checker that marks the flow it has visited
AfterCall_marking(document) ==
  IF IsList(document) /\ Len(document.a) > 0 /\ IsDict(document.a[1])
    THEN JArr(<<JObj(("validated" :> JNum(1)) @@ document.a[1].o)>>
              \o Tail(document.a))
    ELSE document

\* the document as a call of a checker, or of _trace_reachable_steps, leaves
\* it: the calls read it with get, in, indexing and iteration, build their
\* lookups and sets apart from it, and assign to no part of it
AfterCall(document) == document

\* the position after a checker: the next checker of the order, or the return
NextAfter(name) ==
  LET k == CHOOSE n \in 1..Len(order) : order[n] = name
  IN IF k = Len(order) THEN "return" ELSE order[k + 1]

\* the sink after a checker, and the position: an exception leaves validate_flow_file
Record(name, out, next) ==
  LET o == out
  IN /\ errors' = errors \o o.e
     /\ warnings' = warnings \o o.w
     /\ info' = info \o o.i
     /\ ran' = Append(ran, name)
     /\ pc' = IF o.raised THEN "raised" ELSE next
     /\ ret' = IF o.raised THEN "raised" ELSE ret

Checker(name, out, next) ==
  /\ pc = name
  /\ Record(name, out, next)
  /\ data' = AfterCall(data)
  /\ UNCHANGED <<driverVars, traversalVars>>

\* validate_flow_file up to "flow = data[0]"
ReadAndCheckRoot ==
  /\ pc = "start"
  /\ UNCHANGED <<mainVars, traversalVars>>
  /\ IF data \in {JUnparsable, JNoFile}
       THEN /\ errors' = add_error(ResetSink(errors),
                           IF data = JUnparsable THEN "invalid_json" ELSE "file_not_found",
                           <<>>, <<>>)
            /\ warnings' = ResetSink(warnings)
            /\ info' = ResetSink(info)
            /\ ran' = <<>>
            /\ ret' = "false"
            /\ pc' = "returned"
       ELSE LET r == validate_json_structure(data)
            IN /\ errors' = ResetSink(errors) \o r.out.e
               /\ warnings' = ResetSink(warnings) \o r.out.w
               /\ info' = ResetSink(info) \o r.out.i
               /\ ran' = <<"json_structure">>
               /\ IF ~r.ok THEN ret' = "false" /\ pc' = "returned"
                  ELSE IF FlowLookupRaises(data) THEN ret' = "raised" /\ pc' = "raised"
                  ELSE ret' = "none" /\ pc' = order[1]

TopLevelFields ==
  Checker("top_level_fields", validate_top_level_fields(flow), NextAfter("top_level_fields"))
ImportRequiredFields ==
  Checker("import_required_fields", validate_import_required_fields(flow), NextAfter("import_required_fields"))
NamingPatterns == Checker("naming_patterns", validate_naming_patterns(flow), NextAfter("naming_patterns"))
StatusField == Checker("status_field", validate_status_field(flow), NextAfter("status_field"))
ModelObjects == Checker("model_objects", validate_model_objects(flow), NextAfter("model_objects"))
Steps == Checker("steps", validate_steps(flow), NextAfter("steps"))
StepNullFields ==
  Checker("step_null_fields", validate_step_null_fields(flow), NextAfter("step_null_fields"))
ConditionalOperations ==
  Checker("conditional_operations", validate_conditional_operations(flow), NextAfter("conditional_operations"))
DataReferences ==
  Checker("data_references", validate_data_references(flow), NextAfter("data_references"))
QueryExecutorStructure ==
  Checker("query_executor_structure",
          validate_query_executor_structure(flow, <<"flow">>), NextAfter("query_executor_structure"))

\* validate_step_connectivity up to the first call of _trace_reachable_steps
StepConnectivityBegin ==
  /\ pc = "step_connectivity"
  /\ data' = AfterCall(data)
  /\ UNCHANGED driverVars
  /\ LET begin == ConnectivityBegin(flow)
     IN IF begin = "trace"
          THEN /\ stack' = <<Call(Get(flow.o["resolver"], "start", JNull),
                                  StepDict(flow.o["resolver"].o["steps"]))>>
               /\ visited' = {}
               /\ reachable' = {}
               /\ expanded' = <<>>
               /\ ran' = Append(ran, "step_connectivity")
               /\ pc' = "trace"
               /\ UNCHANGED <<errors, warnings, info, ret>>
          ELSE /\ Record("step_connectivity",
                         IF begin = "raise" THEN Raise
                         ELSE IF begin = "no_start" THEN Err("missing_start", <<>>, <<>>)
                         ELSE Nothing,
                         NextAfter("step_connectivity"))
               /\ UNCHANGED traversalVars

\* one call of _trace_reachable_steps: the pending call at the head of the stack
TraceCall ==
  /\ pc = "trace"
  /\ stack /= <<>>
  /\ data' = AfterCall(data)
  /\ UNCHANGED <<driverVars, errors, warnings, info, ran>>
  /\ LET call == Head(stack)
     IN IF call.raises \/ ~Hashable(call.step_id)
          THEN /\ pc' = "raised"
               /\ ret' = "raised"
               /\ UNCHANGED traversalVars
        ELSE IF TraceReturns(call.step_id, call.step_dict, visited)
          THEN /\ stack' = Tail(stack)
               /\ UNCHANGED <<pc, ret, visited, reachable, expanded>>
        ELSE /\ visited' = visited \cup {call.step_id}
             /\ reachable' = reachable \cup {call.step_id}
             /\ expanded' = Append(expanded, call.step_id)
             /\ stack' = Successors(call.step_dict[call.step_id], call.step_dict) \o Tail(stack)
             /\ UNCHANGED <<pc, ret>>

\* validate_step_connectivity after the traversal has returned
StepConnectivityEnd ==
  /\ pc = "trace"
  /\ stack = <<>>
  /\ LET out == ConnectivityEnd(flow, reachable)
     IN /\ errors' = errors \o out.e
        /\ warnings' = warnings \o out.w
        /\ info' = info \o out.i
        /\ pc' = IF out.raised THEN "raised" ELSE NextAfter("step_connectivity")
        /\ ret' = IF out.raised THEN "raised" ELSE ret
  /\ data' = AfterCall(data)
  /\ UNCHANGED <<driverVars, traversalVars, ran>>

\* return len(self.errors) == 0
Return ==
  /\ pc = "return"
  /\ ret' = IF Len(errors) = 0 THEN "true" ELSE "false"
  /\ pc' = "returned"
  /\ UNCHANGED <<mainVars, traversalVars, errors, warnings, info, ran>>

\* main after validate_flow_file: sys.exit(0 if len(validator.errors) == 0 else 1);
\* an exception main does not catch ends the process with exit code 1
MainExit ==
  /\ pc \in {"returned", "raised"}
  /\ exitCode' = IF pc = "raised" THEN 1 ELSE IF Len(errors) = 0 THEN 0 ELSE 1
  /\ pc' = "exited"
  /\ UNCHANGED <<data, run, first, order, traversalVars, errors, warnings, info, ran, ret>>

\* a caller that keeps the instance calls validate_flow_file on the same file again
Rerun ==
  /\ pc \in {"returned", "raised"}
  /\ run < MaxRuns
  /\ run' = run + 1
  /\ first' = IF run = 1
                THEN [errors |-> errors, warnings |-> warnings, info |-> info, ret |-> ret]
                ELSE first
  /\ pc' = "start"
  /\ ret' = "none"
  /\ UNCHANGED <<data, exitCode, order, traversalVars, errors, warnings, info, ran>>

\* a driver that calls the same checkers in another order validates the file
\* after the run of validate_flow_file
Reorder ==
  /\ pc \in {"returned", "raised"}
  /\ run = 1
  /\ run' = 2
  /\ order' \in Orders
  /\ first' = [errors |-> errors, warnings |-> warnings, info |-> info, ret |-> ret]
  /\ pc' = "start"
  /\ ret' = "none"
  /\ UNCHANGED <<data, exitCode, traversalVars, errors, warnings, info, ran>>

Next ==
  \/ ReadAndCheckRoot
  \/ TopLevelFields
  \/ ImportRequiredFields
  \/ NamingPatterns
  \/ StatusField
  \/ ModelObjects
  \/ Steps
  \/ StepNullFields
  \/ ConditionalOperations
  \/ StepConnectivityBegin
  \/ TraceCall
  \/ StepConnectivityEnd
  \/ DataReferences
  \/ QueryExecutorStructure
  \/ Return
  \/ MainExit

\* one run of main
Spec == Init /\ [][Next]_vars

\* a caller that runs validate_flow_file up to MaxRuns times on one instance
NextRerun == Next \/ Rerun

SpecRerun == InitRerun /\ [][NextRerun]_vars

\* the messages and locations the record operations are called with
Findings ==
  {[kind |-> "cannot_invoke_getId", args |-> <<>>, loc |-> <<>>],
   [kind |-> "step_missing_id", args |-> <<>>, loc |-> <<"Step", "1">>]}

\* one call of add_error, add_warning or add_info; ran keeps the calls made
AddError ==
  /\ pc = "sink"
  /\ Len(ran) < MaxEntries
  /\ \E m \in Findings :
       /\ errors' = add_error(errors, m.kind, m.args, m.loc)
       /\ ran' = Append(ran, <<"add_error", m>>)
  /\ UNCHANGED <<mainVars, traversalVars, warnings, info, pc, ret>>

AddWarning ==
  /\ pc = "sink"
  /\ Len(ran) < MaxEntries
  /\ \E m \in Findings :
       /\ warnings' = add_warning(warnings, m.kind, m.args, m.loc)
       /\ ran' = Append(ran, <<"add_warning", m>>)
  /\ UNCHANGED <<mainVars, traversalVars, errors, info, pc, ret>>

AddInfo ==
  /\ pc = "sink"
  /\ Len(ran) < MaxEntries
  /\ \E m \in Findings :
       /\ info' = add_info(info, m.kind, m.args, m.loc)
       /\ ran' = Append(ran, <<"add_info", m>>)
  /\ UNCHANGED <<mainVars, traversalVars, errors, warnings, pc, ret>>

NextSink == AddError \/ AddWarning \/ AddInfo

SpecSink == InitSink /\ [][NextSink]_vars

\* a run of validate_flow_file, then a run with the checkers in another order
NextAnyOrder == Next \/ Reorder

SpecAnyOrder == InitAnyOrder /\ [][NextAnyOrder]_vars

(***************************************************************************)
(* Notions the claims are stated in.                                       *)
(***************************************************************************)
HasError(kind) == \E n \in 1..Len(errors) : errors[n].kind = kind

\* the document was parsed, and its root is a non-empty array
Parsed == data.k \notin {"unparsable", "nofile"}
RootIsFlowArray == IsList(data) /\ Len(data.a) > 0

\* the resolver is an object that declares steps
DeclaresSteps ==
  /\ RootIsFlowArray
  /\ IsDict(flow)
  /\ In("resolver", flow)
  /\ IsDict(flow.o["resolver"])
  /\ In("steps", flow.o["resolver"])

\* the top-level steps by id, and the ids they declare
TopSteps == StepDict(flow.o["resolver"].o["steps"])
Declared == DOMAIN TopSteps
TopStep(id) == TopSteps[id]

\* a field of a body of a step, JNull when the body or the field is not there
BodyField(step, bodyKey, key) ==
  IF In(bodyKey, step) /\ IsDict(step.o[bodyKey]) THEN Get(step.o[bodyKey], key, JNull) ELSE JNull

\* the targets of the expressions of a CONDITIONAL step
ExpressionTargets(step) ==
  LET expressions == BodyField(step, "conditional", "expressions")
  IN IF ~IsList(expressions) THEN {}
     ELSE {Get(expressions.a[n], "next", JNull) :
             n \in {m \in 1..Len(expressions.a) :
                      IsDict(expressions.a[m]) /\ Truthy(Get(expressions.a[m], "next", JNull))}}

\* the exit edge of a step with a body: the body's next if present, else the step's own
ExitTarget(step, bodyKey) ==
  LET target == Or(BodyField(step, bodyKey, "next"), Get(step, "next", JNull))
  IN IF Truthy(target) THEN {target} ELSE {}

\* the type-aware successor edges of a step of the top-level graph
TopEdges(step) ==
  LET type == Get(step, "type", JStr(""))
  IN IF type = JStr("COMPOSITE") THEN ExitTarget(step, "composite")
     ELSE IF type = JStr("LOOP") THEN ExitTarget(step, "loop")
     ELSE IF type = JStr("CONDITIONAL")
       THEN ExpressionTargets(step) \cup ExitTarget(step, "conditional")
     ELSE IF Truthy(Get(step, "next", JNull)) THEN {Get(step, "next", JNull)} ELSE {}

\* the declared top-level steps reachable from the start along those edges
RECURSIVE ReachFrom(_, _)
ReachFrom(frontier, seen) ==
  IF frontier = {} THEN seen
  ELSE LET found == seen \cup frontier
           after == UNION {TopEdges(TopStep(id)) : id \in frontier} \cap Declared
       IN ReachFrom(after \ found, found)

TopReachable == ReachFrom({Get(flow.o["resolver"], "start", JNull)} \cap Declared, {})

\* the connectivity check made its traversal and returned without raising
TraversalDone ==
  /\ pc \in {"data_references", "query_executor_structure", "return", "returned", "exited"}
  /\ ret /= "raised"
  /\ DeclaresSteps
  /\ Truthy(Get(flow.o["resolver"], "start", JNull))

\* the ids the orphan errors name
OrphanErrors == {n \in 1..Len(errors) : errors[n].kind = "orphaned_steps"}
OrphansNamed == {JStr(s) : s \in UNION {Range(errors[n].args) : n \in OrphanErrors}}

\* a sequence of ids in the order sorted() gives
IsSortedIds(ids) == ids = Sorted(Range(ids))

(***************************************************************************)
(* The claims.                                                             *)
(***************************************************************************)

\* C1: the verdict of a run is positive exactly when no Error was recorded, and
\* the process exit code is 0 exactly when no Error was recorded - Warnings and
\* Info never count.
C1_VerdictFollowsErrors ==
  /\ (pc \in {"returned", "exited"} /\ ret \in {"true", "false"}) => (ret = "true" <=> errors = <<>>)
  /\ pc = "exited" => (exitCode = 0 <=> errors = <<>>)

\* C2: a document whose root is not an array, or is an empty array, gets exactly
\* one Error about the root and a negative verdict, and no later check runs.
C2_BadRootStopsTheRun ==
  (Parsed /\ ~RootIsFlowArray /\ pc /= "start") =>
     /\ pc \in {"returned", "exited"}
     /\ ret = "false"
     /\ Len(errors) = 1
     /\ errors[1].sev = "ERROR"
     /\ errors[1].kind = (IF IsList(data) THEN "flow_array_empty" ELSE "root_not_array")
     /\ warnings = <<>>
     /\ info = <<>>
     /\ ran = <<"json_structure">>

\* an empty array was rejected and the run returned
C2_Witness ==
  /\ pc = "returned"
  /\ data = JArr(<<>>)
  /\ ret = "false"
  /\ HasError("flow_array_empty")

\* C3: after the traversal, every declared top-level step that is not reachable
\* from the start is named in one orphan Error, the ids sorted.
C3_UnreachableStepsAreOrphans ==
  TraversalDone =>
    LET unreached == Declared \ TopReachable
    IN unreached /= {} =>
         /\ Cardinality(OrphanErrors) = 1
         /\ unreached \subseteq OrphansNamed
         /\ \A n \in OrphanErrors : IsSortedIds(errors[n].args)

\* C4: after the traversal, no declared top-level step that is reachable from
\* the start is named in an orphan Error.
C4_ReachableStepsAreNotOrphans ==
  TraversalDone => TopReachable \cap OrphansNamed = {}

\* the references of the top-level steps to successors no top-level step declares
DanglingTargets ==
  LET steps == Items(flow.o["resolver"].o["steps"])
      refs(step) == IF ~IsDict(step) THEN {}
                    ELSE UNION {
                      IF Truthy(Get(step, "next", JNull)) THEN {Get(step, "next", JNull)} ELSE {},
                      IF Truthy(BodyField(step, "composite", "next"))
                        THEN {BodyField(step, "composite", "next")} ELSE {},
                      IF Truthy(BodyField(step, "loop", "next"))
                        THEN {BodyField(step, "loop", "next")} ELSE {},
                      IF Truthy(BodyField(step, "conditional", "next"))
                        THEN {BodyField(step, "conditional", "next")} ELSE {},
                      ExpressionTargets(step)}
  IN UNION {refs(steps[n]) : n \in 1..Len(steps)} \ Declared

DanglingKinds ==
  {"dangling_next", "dangling_composite_next", "dangling_loop_next",
   "dangling_expression_next", "dangling_default_next"}

\* the ids the dangling-reference errors name as missing
DanglingNamed ==
  UNION {Range(errors[n].args) : n \in {m \in 1..Len(errors) : errors[m].kind \in DanglingKinds}}

\* C5: a run that returns has recorded an Error for every reference of a
\* top-level step to a non-existent successor, whether or not the traversal
\* was made.
C5_DanglingReferencesAreErrors ==
  (pc = "returned" /\ DeclaresSteps) =>
     \A target \in DanglingTargets : Show(target) \in DanglingNamed

\* the flow has a resolver whose start is missing: absent, null or empty
StartIsMissing ==
  /\ RootIsFlowArray
  /\ IsDict(flow)
  /\ In("resolver", flow)
  /\ IsDict(flow.o["resolver"])
  /\ ~Truthy(Get(flow.o["resolver"], "start", JNull))

ConnectivityChecked ==
  pc \in {"data_references", "query_executor_structure", "return", "returned", "exited"} /\ ret /= "raised"

\* C6 as stated: when the start is missing the reachability check records the
\* missing-start Error, makes no traversal and records no orphan Error.
C6_MissingStartIsAnError ==
  (ConnectivityChecked /\ StartIsMissing) =>
     /\ HasError("missing_start")
     /\ ~HasError("orphaned_steps")
     /\ expanded = <<>>

\* C6, amended: when the resolver is an object that declares steps and its
\* start is missing, the reachability check records the missing-start Error
\* once, makes no traversal and records no orphan Error.
C6_MissingStartWithStepsIsAnError ==
  (ConnectivityChecked /\ StartIsMissing /\ DeclaresSteps) =>
     /\ Cardinality({n \in 1..Len(errors) : errors[n].kind = "missing_start"}) = 1
     /\ ~HasError("orphaned_steps")
     /\ ~HasError("start_step_not_found")
     /\ expanded = <<>>
     /\ reachable = {}

\* steps are declared, none is the start, and the check has reported that
C6_Witness ==
  /\ pc = "data_references"
  /\ StartIsMissing
  /\ DeclaresSteps
  /\ Declared /= {}
  /\ HasError("missing_start")

\* C7: every branch target and the default successor of a reachable top-level
\* CONDITIONAL step is itself reached by the traversal.
C7_ConditionalTargetsAreReached ==
  TraversalDone =>
    \A id \in TopReachable :
      Get(TopStep(id), "type", JNull) = JStr("CONDITIONAL") =>
        \A target \in TopEdges(TopStep(id)) \cap Declared :
          target \in reachable /\ target \notin OrphansNamed

\* the ids declared at any nesting level
RECURSIVE IdsIn(_)
IdsIn(steps) ==
  LET items == Items(steps)
      inner(step, bodyKey) ==
        IF IsDict(step) /\ In(bodyKey, step) /\ IsDict(step.o[bodyKey])
             /\ In("steps", step.o[bodyKey])
          THEN IdsIn(step.o[bodyKey].o["steps"])
          ELSE {}
  IN UNION {(IF IsDict(items[n]) /\ In("id", items[n]) THEN {items[n].o["id"]} ELSE {})
              \cup inner(items[n], "composite") \cup inner(items[n], "loop")
            : n \in 1..Len(items)}

AllIds == IdsIn(flow.o["resolver"].o["steps"])

NoRepeat(seq) == \A m, n \in 1..Len(seq) : seq[m] = seq[n] => m = n

\* what every step of the traversal decreases: the ids not yet visited, then
\* the calls still pending
Decreases ==
  \/ Cardinality(visited') > Cardinality(visited)
  \/ visited' = visited /\ Len(stack') < Len(stack)

\* C8: the traversal terminates on cyclic graphs: no id is expanded twice, so
\* the expansions number at most the ids declared at any nesting level, and
\* every step of the traversal either visits a new id or finishes a call.
C8_TraversalTerminates ==
  [][(pc = "trace" /\ pc' = "trace") =>
       /\ NoRepeat(expanded')
       /\ Range(expanded') = visited'
       /\ visited' \subseteq AllIds
       /\ Len(expanded') <= Cardinality(AllIds)
       /\ Decreases]_vars

\* the traversal is about to follow an edge back to a step it has expanded
C8_Witness ==
  /\ pc = "trace"
  /\ Len(expanded) >= 2
  /\ stack /= <<>>
  /\ ~Head(stack).raises
  /\ Head(stack).step_id = expanded[1]
  /\ \A id \in Declared : Get(TopStep(id), "type", JNull) = JStr("INLINE")

\* C9: no document whose root is a non-empty array makes a check raise; every
\* run ends with a verdict.
C9_NoCheckRaises ==
  RootIsFlowArray => pc /= "raised" /\ ret /= "raised"

\* C10: running the same document again on the same validator gives the same
\* verdict and the same lists of Errors, Warnings and Info as the first run.
C10_RerunGivesTheSameReport ==
  (run >= 2 /\ pc \in {"returned", "raised"}) =>
     first = [ret |-> ret, errors |-> errors, warnings |-> warnings, info |-> info]

\* a second run has returned with entries of all three severities
C10_Witness ==
  /\ run = 2
  /\ pc = "returned"
  /\ errors /= <<>>
  /\ warnings /= <<>>
  /\ info /= <<>>

\* the entries of a list, each with the number of times it occurs
BagOf(list) == [x \in Range(list) |-> Cardinality({n \in 1..Len(list) : list[n] = x})]

\* C11: the checkers run in any order give the same verdict and the same
\* multisets of Errors, Warnings and Info as the order of the driver.
C11_AnyOrderGivesTheSameReport ==
  (run = 2 /\ pc \in {"returned", "raised"}) =>
     /\ ret = first.ret
     /\ BagOf(errors) = BagOf(first.errors)
     /\ BagOf(warnings) = BagOf(first.warnings)
     /\ BagOf(info) = BagOf(first.info)


\* the checker has been called in this run
Ran(name) == \E n \in 1..Len(ran) : ran[n] = name

\* the entries of a list that are of the given kinds, in the order recorded
Of(list, kinds) == SelectSeq(list, LAMBDA x : x.kind \in kinds)

StatusKinds ==
  {"invalid_status_value", "valid_status_values_are", "never_use_draft", "unknown_status_value"}

IsDraft == IsDict(flow) /\ In("status", flow) /\ flow.o["status"] = JStr("DRAFT")

\* C12: for a flow with status "DRAFT" the status check records exactly two
\* Errors, one naming the invalid value 'DRAFT' and one with the
\* never-use-DRAFT guidance, and records the list of the valid status values
\* as an Info entry.
C12_DraftGivesTwoErrorsAndAnInfo ==
  (Ran("status_field") /\ IsDraft) =>
     /\ BagOf(Of(errors, StatusKinds))
          = BagOf(<<Entry("ERROR", "invalid_status_value", <<"DRAFT">>, <<>>),
                    Entry("ERROR", "never_use_draft", <<>>, <<>>)>>)
     /\ Of(info, StatusKinds) = <<Entry("INFO", "valid_status_values_are", ValidStatusList, <<>>)>>


\* the operations of the expressions of the CONDITIONAL steps of a list of
\* steps, at any depth of COMPOSITE and LOOP bodies
RECURSIVE OperationsIn(_)
OperationsIn(steps) ==
  IF ~IsList(steps) THEN {}
  ELSE LET inner(step, kind) ==
             IF Get(step, "type", JNull) = JStr(kind[1])
               THEN OperationsIn(BodyField(step, kind[2], "steps"))
               ELSE {}
           own(step) ==
             LET expressions == BodyField(step, "conditional", "expressions")
             IN IF Get(step, "type", JNull) = JStr("CONDITIONAL") /\ IsList(expressions)
                  THEN {expression.o["operation"].s :
                          expression \in {x \in Range(expressions.a) :
                             IsDict(x) /\ In("operation", x) /\ IsStr(x.o["operation"])}}
                  ELSE {}
       IN UNION {own(step) \cup inner(step, Composite) \cup inner(step, Loop) :
                   step \in {x \in Range(steps.a) : IsDict(x)}}

OperationErrors(operation) ==
  {e \in Range(errors) :
     /\ e.kind \in {"invalid_conditional_operation", "unknown_conditional_operation"}
     /\ e.args[1] = operation}

OperationChecked(operation) ==
  IF operation \in VALID_CONDITIONAL_OPERATIONS
    THEN OperationErrors(operation) = {}
  ELSE IF operation \in DOMAIN INVALID_CONDITIONAL_OPERATIONS
    THEN /\ \E e \in OperationErrors(operation) : e.kind = "invalid_conditional_operation"
         /\ \E e \in Range(errors) :
              /\ e.kind = "use_instead"
              /\ e.args = <<INVALID_CONDITIONAL_OPERATIONS[operation], operation>>
  ELSE \E e \in OperationErrors(operation) : e.kind = "unknown_conditional_operation"

\* C13: for each expression of each CONDITIONAL step of the flow, at the top
\* level or nested in a COMPOSITE or LOOP body, an operation of the valid
\* vocabulary records no Error, a known misnomer records an Error that names
\* the canonical operation, and any other operation records an
\* unknown-operation Error.
C13_EveryOperationIsChecked ==
  (Ran("conditional_operations") /\ ret /= "raised" /\ DeclaresSteps) =>
     \A operation \in OperationsIn(flow.o["resolver"].o["steps"]) : OperationChecked(operation)


\* the Errors of the model check that name a role: its model field or its id field
RoleErrors(model_field, id_field) ==
  {e \in Range(errors) :
     /\ e.kind \in {"missing_model_object", "model_is_null", "missing_model_id_field",
                    "model_id_mismatch"}
     /\ e.args[1] \in {model_field, id_field}}

ModelsChecked == Ran("model_objects") /\ RootIsFlowArray /\ IsDict(flow)

ModelMissing(model_field) == ~In(model_field, flow)
ModelNull(model_field) == In(model_field, flow) /\ IsNull(flow.o[model_field])

\* the model is an object with an id, and the flow has the id field of the role
ModelComparable(model_field, id_field) ==
  /\ In(model_field, flow)
  /\ IsDict(flow.o[model_field])
  /\ In("id", flow.o[model_field])
  /\ In(id_field, flow)

ModelDiffers(model_field, id_field) ==
  ModelComparable(model_field, id_field) /\ flow.o[id_field] /= flow.o[model_field].o["id"]

\* C14: for each of the three model roles a missing model records an Error, a
\* null model records an Error, a model whose id differs from the id field of
\* the role records an Error that cites both values, and a model whose id
\* equals the id field records no Error of this check.
C14_ModelRolesAreChecked ==
  ModelsChecked =>
    \A n \in 1..Len(model_checks) :
      LET model_field == model_checks[n][1]
          id_field == model_checks[n][2]
          role == RoleErrors(model_field, id_field)
      IN /\ ModelMissing(model_field) =>
              \E e \in role : e.kind = "missing_model_object" /\ e.args = <<model_field>>
         /\ ModelNull(model_field) =>
              \E e \in role : e.kind = "model_is_null" /\ e.args = <<model_field>>
         /\ ModelDiffers(model_field, id_field) =>
              \E e \in role :
                /\ e.kind = "model_id_mismatch"
                /\ e.args = <<id_field, Show(flow.o[id_field]),
                              model_field, Show(flow.o[model_field].o["id"])>>
         /\ (ModelComparable(model_field, id_field) /\ ~ModelDiffers(model_field, id_field)) =>
              role = {}

\* a flow with a missing, a null and a differing model has been checked
C14_Witness ==
  /\ ModelsChecked
  /\ \E n \in 1..Len(model_checks) : ModelMissing(model_checks[n][1])
  /\ \E n \in 1..Len(model_checks) : ModelNull(model_checks[n][1])
  /\ \E n \in 1..Len(model_checks) : ModelDiffers(model_checks[n][1], model_checks[n][2])


NamingChecked == Ran("naming_patterns") /\ ret /= "raised" /\ DeclaresSteps

\* the naming Errors that name an id
NamingErrors(id) ==
  {e \in Range(errors) :
     /\ e.kind \in {"invalid_step_name", "step_name_spaces", "step_name_dashes",
                    "step_name_underscores", "step_name_uppercase",
                    "invalid_composite_step_name", "invalid_nested_step_name"}
     /\ e.args[1] = id}

\* the violation categories an id exhibits, by the kind of the Error that names each
Categories(id) ==
  (IF HasChar(id, " ") THEN {"step_name_spaces"} ELSE {})
  \cup (IF HasChar(id, "-") THEN {"step_name_dashes"} ELSE {})
  \cup (IF HasChar(id, "_") THEN {"step_name_underscores"} ELSE {})
  \cup (IF StartsUpper(id) THEN {"step_name_uppercase"} ELSE {})

\* the ids of the steps of the top level that are non-empty strings
TopStepIds ==
  {step.o["id"].s :
     step \in {x \in Range(Items(flow.o["resolver"].o["steps"])) :
                 IsDict(x) /\ In("id", x) /\ IsStr(x.o["id"]) /\ x.o["id"].s /= ""}}

\* C15: a step id that matches ^[a-z][a-zA-Z0-9]*$ records no naming Error; a
\* step id, of a step of any type, that contains a space, a hyphen or an
\* underscore or starts with an uppercase letter records an Error for each of
\* these categories it exhibits, naming that construct.
C15_EveryViolationCategoryIsNamed ==
  NamingChecked =>
    \A id \in TopStepIds :
      /\ MatchesCamelCase(id) => NamingErrors(id) = {}
      /\ \A category \in Categories(id) : \E e \in NamingErrors(id) : e.kind = category


\* the ids of the steps nested in the COMPOSITE and LOOP bodies of a step, at
\* any depth, that are non-empty strings
RECURSIVE NestedIds(_)
NestedIds(step) ==
  LET body(kind) ==
        IF IsDict(step) /\ Get(step, "type", JNull) = JStr(kind[1])
          THEN BodyField(step, kind[2], "steps")
          ELSE JNull
      under(steps) ==
        IF ~IsList(steps) THEN {}
        ELSE UNION {(IF IsDict(x) /\ IsStr(Get(x, "id", JNull)) /\ x.o["id"].s /= ""
                       THEN {x.o["id"].s} ELSE {})
                    \cup NestedIds(x) : x \in Range(steps.a)}
  IN under(body(Composite)) \cup under(body(Loop))

AllNestedIds == UNION {NestedIds(step) : step \in Range(Items(flow.o["resolver"].o["steps"]))}

\* C16: every step id that violates the lower-camel-case pattern records a
\* naming Error at every nesting depth: inside COMPOSITE bodies, inside LOOP
\* bodies, and inside any combination of the two nested in one another.
C16_NestedNamesAreChecked ==
  NamingChecked =>
    \A id \in AllNestedIds : ~MatchesCamelCase(id) => NamingErrors(id) /= {}


\* the steps of the resolver's list that the connector rule applies to: the
\* COMPOSITE steps with an id and a function descriptor that has a name
ConnectorSteps ==
  {n \in 1..Len(Items(flow.o["resolver"].o["steps"])) :
     LET step == Items(flow.o["resolver"].o["steps"])[n]
     IN /\ IsDict(step)
        /\ Get(step, "type", JNull) = JStr("COMPOSITE")
        /\ IsStr(Get(step, "id", JNull)) /\ step.o["id"].s /= ""
        /\ In("function", step) /\ IsDict(step.o["function"])
        /\ IsStr(Get(step.o["function"], "name", JNull))
        /\ step.o["function"].o["name"].s /= ""}

ConnectorStep(n) == Items(flow.o["resolver"].o["steps"])[n]
ConnectorMismatch(n) == ConnectorStep(n).o["id"] /= ConnectorStep(n).o["function"].o["name"]

RECURSIVE Located(_, _)
Located(v, path) ==
  IF IsDict(v)
    THEN {<<path, v>>} \cup UNION {Located(v.o[key], path \o <<key>>) : key \in DOMAIN v.o}
  ELSE IF IsList(v)
    THEN UNION {Located(v.a[n], path \o <<ToStr(n - 1)>>) : n \in 1..Len(v.a)}
  ELSE {}

IsValueNode(obj) == In("returnLiteral", obj) /\ In("symbolOrIndex", obj) /\ In("version", obj)

ChildrenErrors(path) ==
  {e \in Range(errors) : e.kind = "missing_children_array" /\ e.args = path}

QueryExecutorChecked ==
  Ran("query_executor_structure") /\ ret /= "raised" /\ RootIsFlowArray /\ IsDict(flow)

\* C18: every object anywhere in the flow document, through any nesting of
\* objects and arrays (arrays nested directly in arrays and the value of a
\* child of another ValueNode included), that has the keys returnLiteral,
\* symbolOrIndex and version but no children key records an Error tagged
\* with the path to the object; an object with all four keys records none
\* for itself.
C18_EveryChildlessValueNodeIsAnError ==
  QueryExecutorChecked =>
    \A located \in Located(flow, <<"flow">>) :
      IsValueNode(located[2]) =>
        IF In("children", located[2])
          THEN ChildrenErrors(located[1]) = {}
          ELSE ChildrenErrors(located[1]) /= {}


\* the call the traversal is about to make expands a step of the given type
\* with a well-formed body: an object whose steps are objects
Expands(type, bodyKey) ==
  /\ pc = "trace"
  /\ stack /= <<>>
  /\ ~Head(stack).raises
  /\ Hashable(Head(stack).step_id)
  /\ ~TraceReturns(Head(stack).step_id, Head(stack).step_dict, visited)
  /\ LET step == Head(stack).step_dict[Head(stack).step_id]
     IN /\ Get(step, "type", JNull) = JStr(type)
        /\ In(bodyKey, step) /\ IsDict(step.o[bodyKey])
        /\ IsList(BodyField(step, bodyKey, "steps"))
        /\ \A x \in Range(BodyField(step, bodyKey, "steps").a) : IsDict(x)

\* where a body is entered: at its start if present, else at the first
\* declared nested step if there is one
EntryOf(step, bodyKey) ==
  LET start == BodyField(step, bodyKey, "start")
      nested == BodyField(step, bodyKey, "steps")
  IN IF Truthy(start) THEN <<Call(start, StepDict(nested))>>
     ELSE IF Len(nested.a) > 0 /\ In("id", nested.a[1])
       THEN <<Call(nested.a[1].o["id"], StepDict(nested))>>
     ELSE <<>>

\* the one exit edge: the next of the body if present, otherwise the next of
\* the step itself
ExitOf(step, bodyKey, step_dict) ==
  LET bodyNext == BodyField(step, bodyKey, "next")
      outerNext == Get(step, "next", JNull)
  IN IF Truthy(bodyNext) THEN <<Call(bodyNext, step_dict)>>
     ELSE IF Truthy(outerNext) THEN <<Call(outerNext, step_dict)>>
     ELSE <<>>

\* C19: for a reachable COMPOSITE step the traversal enters the nested graph
\* at composite.start if present, else at the first declared nested step when
\* composite.steps is non-empty, and then follows exactly one exit edge in the
\* outer scope: composite.next if present, otherwise the next of the step
\* itself, which is not followed when composite.next is present.
C19_CompositeEntryAndOneExit ==
  [][Expands("COMPOSITE", "composite") =>
       LET call == Head(stack)
           step == call.step_dict[call.step_id]
       IN /\ call.step_id \in reachable'
          /\ stack' = EntryOf(step, "composite")
                        \o ExitOf(step, "composite", call.step_dict)
                        \o Tail(stack)]_vars

\* a COMPOSITE step without a start, whose body and itself both have a next,
\* has just been expanded: the pending calls are the first nested step and
\* the next of the body
C19_Witness ==
  /\ pc = "trace"
  /\ expanded = <<JStr("a")>>
  /\ DeclaresSteps
  /\ LET step == TopStep(JStr("a"))
     IN /\ Get(step, "type", JNull) = JStr("COMPOSITE")
        /\ ~Truthy(BodyField(step, "composite", "start"))
        /\ Truthy(BodyField(step, "composite", "next"))
        /\ Truthy(Get(step, "next", JNull))
        /\ Get(step, "next", JNull) /= BodyField(step, "composite", "next")
        /\ Len(stack) = 2
        /\ stack[1].step_id = BodyField(step, "composite", "steps").a[1].o["id"]
        /\ stack[2].step_id = BodyField(step, "composite", "next")


\* a COMPOSITE step with the body of a LOOP step, for every LOOP step of a
\* list of steps and of the bodies in it
RECURSIVE AsComposite(_)
AsComposite(steps) ==
  IF ~IsList(steps) THEN steps
  ELSE JArr([n \in 1..Len(steps.a) |->
         LET step == steps.a[n]
             twin(body) ==
               IF IsDict(body) /\ In("steps", body)
                 THEN JObj([key \in DOMAIN body.o |->
                        IF key = "steps" THEN AsComposite(body.o[key]) ELSE body.o[key]])
                 ELSE body
         IN IF ~IsDict(step) THEN step
            ELSE IF Get(step, "type", JNull) = JStr("LOOP") /\ In("loop", step)
              THEN JObj(("type" :> JStr("COMPOSITE")) @@ ("composite" :> twin(step.o["loop"]))
                        @@ ("loop" :> JNull) @@ step.o)
            ELSE IF Get(step, "type", JNull) = JStr("COMPOSITE") /\ In("composite", step)
              THEN JObj(("composite" :> twin(step.o["composite"])) @@ step.o)
            ELSE step])

Raised == [k |-> "raised"]

\* the ids the calls of _trace_reachable_steps visit, made in order from a
\* list of pending calls; Raised is among them when a call raises
RECURSIVE Visits(_, _)
Visits(pending, seen) ==
  IF pending = <<>> THEN seen
  ELSE LET call == Head(pending)
       IN IF call.raises \/ ~Hashable(call.step_id) THEN seen \cup {Raised}
          ELSE IF TraceReturns(call.step_id, call.step_dict, seen)
            THEN Visits(Tail(pending), seen)
          ELSE Visits(Successors(call.step_dict[call.step_id], call.step_dict) \o Tail(pending),
                      seen \cup {call.step_id})

\* what the traversal visits in the flow with every LOOP step made a COMPOSITE step
TwinVisits ==
  LET steps == AsComposite(flow.o["resolver"].o["steps"])
  IN IF StepDictRaises(steps) THEN {Raised}
     ELSE Visits(<<Call(flow.o["resolver"].o["start"], StepDict(steps))>>, {})

\* C20: the edges of a LOOP step are resolved as those of a COMPOSITE step: a
\* LOOP step and a COMPOSITE step with the same body (steps, start, next)
\* make the traversal visit the same set of ids; in particular a loop without
\* start and with steps is entered at its first declared step.
C20_LoopVisitsWhatCompositeVisits ==
  (TraversalDone /\ Raised \notin TwinVisits) => reachable = TwinVisits


\* the entries the calls of one record operation made, in the order of the calls
Recorded(operation, sev) ==
  LET calls == SelectSeq(ran, LAMBDA call : call[1] = operation)
  IN [n \in 1..Len(calls) |-> Entry(sev, calls[n][2].kind, calls[n][2].args, calls[n][2].loc)]

\* C21: each record operation of the sink (add_error, add_warning, add_info)
\* appends exactly one entry to the end of the list of its severity and leaves
\* the other two lists unchanged; no entry is ever removed, reordered or
\* deduplicated, so recording a finding twice yields two entries: each list
\* is the sequence of the calls of its operation.
C21_SinkKeepsEveryRecord ==
  pc = "sink" =>
     /\ errors = Recorded("add_error", "ERROR")
     /\ warnings = Recorded("add_warning", "WARNING")
     /\ info = Recorded("add_info", "INFO")

\* the same finding has been recorded twice as an Error, with a Warning in between
C21_Witness ==
  /\ pc = "sink"
  /\ Len(errors) = 2 /\ errors[1] = errors[2]
  /\ Len(warnings) = 1
  /\ ran[2][1] = "add_warning"


StartIsUndeclared == Get(flow.o["resolver"], "start", JNull) \notin Declared

\* C23: when resolver.start is present but names an id that is not among the
\* top-level steps, the reachability check records an Error that names the
\* start id, the traversal reaches no step, and every declared top-level step
\* id is listed in the orphan Error.
C23_UndeclaredStartOrphansEveryStep ==
  (TraversalDone /\ StartIsUndeclared) =>
     /\ \E e \in Range(errors) :
          /\ e.kind = "start_step_not_found"
          /\ e.args = <<Show(flow.o["resolver"].o["start"])>>
     /\ reachable = {}
     /\ Declared /= {} =>
          /\ Cardinality(OrphanErrors) = 1
          /\ OrphansNamed = Declared

\* the reachability check has been made on a flow of several steps whose
\* start no step declares
C23_Witness ==
  /\ TraversalDone
  /\ StartIsUndeclared
  /\ Cardinality(Declared) >= 2

====
